---- MODULE Spec2Model ----
(***************************************************************************)
(* github-statcrab: the GitHub aggregation layer.                          *)
(*                                                                         *)
(*   SpecCache  the response cache (src/github/cache.rs): concurrent       *)
(*              callers of get_or_insert_user_stats and                    *)
(*              get_or_insert_user_languages over the two moka caches.     *)
(*   SpecApi    the GraphQL client, the rate-limit governor and the two    *)
(*              paginated fetches (src/github/api.rs).                     *)
(***************************************************************************)
EXTENDS Integers, Sequences, FiniteSets, TLC

VARIABLES
    now,              \* wall clock / cache clock, seconds
    stats_cache,      \* GitHubCache.stats_cache: username -> entry
    languages_cache,  \* GitHubCache.languages_cache: CacheKey -> entry
    call,             \* per caller: the get_or_insert_* call it is suspended in
    last,             \* per caller: what its most recent call returned (history)
    prev,             \* per caller: the entry its last successful call returned (history)
    token,            \* GitHubApi.token: whether GITHUB_TOKEN was set at construction
    rate_limit,       \* RATE_LIMIT_STATE: the snapshot behind the RwLock
    task,             \* per request task: the uncached fetch it is running
    exec,             \* per request task: its latest execute_query call (history)
    rwlock,           \* RATE_LIMIT_STATE: the RwLock, its writer and its readers
    thread,           \* per thread: its place in update_rate_limit_from_headers or get_github_rate_limit
    history,          \* the last completed update and the last snapshot read (history)
    input,            \* the function or handler being called, with its arguments
    output            \* what that call returned

cacheVars == <<stats_cache, languages_cache, call, last, prev>>
lockVars == <<rwlock, thread, history>>
apiVars == <<token, rate_limit, task, exec, lockVars>>
vars == <<now, stats_cache, languages_cache, call, last, prev,
          token, rate_limit, task, exec, rwlock, thread, history, input, output>>

(***************************************************************************)
(* Bounds of the model                                                     *)
(***************************************************************************)
MaxNow == 3600        \* the clock stops advancing here

Callers == {"c1", "c2"}                      \* concurrent request tasks using the cache
CachedUsers == {"alice"}
ExcludeLists == {<<"r1">>}

(***************************************************************************)
(* CacheConfig::default                                                    *)
(***************************************************************************)
user_stats_ttl == 900
user_languages_ttl == 3600
TickStep == 900       \* granularity at which the model observes the clock

(***************************************************************************)
(* Option / Result values                                                  *)
(***************************************************************************)
NoEntry == [present |-> FALSE, value |-> "-", inserted_at |-> 0]

NoResult == [tag |-> "none", val |-> "-"]
Ok(v) == [tag |-> "ok", val |-> v]

(***************************************************************************)
(* CacheKey::user_languages: the key is the username and a hash of the     *)
(* exclusion slice (length, then each element in order).  The lists are    *)
(* unbounded and the hash has 2^64 values, so different lists share a hash; *)
(* the hash of the model has 61 values, which puts such a pair among the   *)
(* lists tried (["r2"] and ["r2", "r1"]).                                  *)
(***************************************************************************)
RECURSIVE HashSlice(_, _)
HashSlice(s, h) ==
    LET RepoCode(r) == IF r = "r1" THEN 1 ELSE IF r = "r2" THEN 2 ELSE 3
    IN  IF s = << >> THEN h
        ELSE HashSlice(Tail(s), (h * 31 + RepoCode(Head(s))) % 61)

user_languages(username, excluded_repos) ==
    [username |-> username,
     excluded_repos_hash |-> HashSlice(excluded_repos, Len(excluded_repos))]

CacheKeys == {user_languages(u, e) : u \in CachedUsers, e \in ExcludeLists}

(***************************************************************************)
(* moka::future::Cache built with time_to_live(ttl): get returns the       *)
(* value unless the entry is absent or its time to live has elapsed;       *)
(* insert stores the value stamped with the current time, replacing any    *)
(* entry the key had.                                                      *)
(***************************************************************************)
CacheGet(cache, key, ttl) ==
    IF cache[key].present /\ now < cache[key].inserted_at + ttl
    THEN cache[key]
    ELSE NoEntry

CacheInsert(cache, key, v) == [cache EXCEPT ![key] = [present |-> TRUE, value |-> v, inserted_at |-> now]]

(***************************************************************************)
(* Option<u64> and the rate-limit snapshot (api.rs 10-16)                  *)
(***************************************************************************)
None == [some |-> FALSE, v |-> 0]
Some(x) == [some |-> TRUE, v |-> x]

DefaultRateLimit == [limit |-> None, remaining |-> None, used |-> None, reset |-> None]

(***************************************************************************)
(* Header values are byte strings, here sequences of one-character         *)
(* strings. HeaderValue::to_str accepts visible ASCII only; str::parse::<u64> *)
(* accepts an optional '+' followed by at least one digit, digits only.    *)
(* (The strings of the model stay far below u64::MAX.)                     *)
(***************************************************************************)
Absent == [present |-> FALSE, bytes |-> << >>]
Hdr(b) == [present |-> TRUE, bytes |-> b]

DigitChars == {"0", "1", "2", "3", "4", "5", "6", "7", "8", "9"}

DigitVal(c) ==
    CASE c = "0" -> 0 [] c = "1" -> 1 [] c = "2" -> 2 [] c = "3" -> 3 [] c = "4" -> 4
      [] c = "5" -> 5 [] c = "6" -> 6 [] c = "7" -> 7 [] c = "8" -> 8 [] c = "9" -> 9

RECURSIVE DigitsValue(_, _)
DigitsValue(d, acc) ==
    IF d = << >> THEN acc ELSE DigitsValue(Tail(d), acc * 10 + DigitVal(Head(d)))

ParseU64(b) ==
    IF b = << >> THEN None
    ELSE IF Len(b) = 1 /\ Head(b) \in {"+", "-"} THEN None
    ELSE LET digits == IF Head(b) = "+" THEN Tail(b) ELSE b
         IN  IF \A i \in 1..Len(digits) : digits[i] \in DigitChars
             THEN Some(DigitsValue(digits, 0))
             ELSE None

\* headers.get(name).and_then(|v| v.to_str().ok()).and_then(|s| s.parse().ok())
HeaderU64(h) ==
    IF ~h.present THEN None
    ELSE IF \E i \in 1..Len(h.bytes) :
                h.bytes[i] \notin DigitChars \cup {"+", "-", "a", "b", "c", " "}
         THEN None
    ELSE ParseU64(h.bytes)

\* api.rs 38-65: every field is assigned what its header parses to.
update_rate_limit_from_headers(snapshot, headers) ==
    [limit     |-> HeaderU64(headers.limit),
     remaining |-> HeaderU64(headers.remaining),
     used      |-> HeaderU64(headers.used),
     reset     |-> HeaderU64(headers.reset)]

(***************************************************************************)
(* GitHubApiError and Result values of the API layer                       *)
(***************************************************************************)
ApiNone == [tag |-> "none", kind |-> "-", a |-> 0, b |-> 0, msg |-> "-",
            stats |-> [total_stars |-> 0, total_issues |-> 0, total_prs |-> 0,
                       total_merged_prs |-> 0, total_discussions_started |-> 0,
                       total_discussions_answered |-> 0],
            langs |-> {}]
ApiErr(kind, a, b, msg) == [ApiNone EXCEPT !.tag = "err", !.kind = kind,
                                         !.a = a, !.b = b, !.msg = msg]
MissingToken == ApiErr("MissingToken", 0, 0, "-")
RateLimitExceeded == ApiErr("RateLimitExceeded", 0, 0, "-")
RateLimitProtection(remaining, reset) == ApiErr("RateLimitProtection", remaining, reset, "-")
NetworkError(source) == ApiErr("NetworkError", 0, 0, source)
UserNotFound == ApiErr("UserNotFound", 0, 0, "-")
GraphQLError(message) == ApiErr("GraphQLError", 0, 0, message)
ApiOk == [ApiNone EXCEPT !.tag = "ok"]
OkStats(rec) == [ApiOk EXCEPT !.stats = rec]

(***************************************************************************)
(* api.rs 74-100: check_rate_limit_with_data, with the clock as a parameter *)
(***************************************************************************)
RateLimitThreshold == 100

\* The threshold test made inclusive: a request with exactly 100 remaining is
\* turned away too.
check_rate_limit_inclusive(snapshot, current_time) ==
    IF ~snapshot.remaining.some \/ ~snapshot.reset.some
    THEN ApiOk
    ELSE IF snapshot.remaining.v <= RateLimitThreshold /\ current_time < snapshot.reset.v
         THEN RateLimitProtection(snapshot.remaining.v, snapshot.reset.v)
         ELSE ApiOk

check_rate_limit_with_data(snapshot, current_time) ==
    IF ~snapshot.remaining.some \/ ~snapshot.reset.some
    THEN ApiOk
    ELSE LET remaining == snapshot.remaining.v
             reset_time == snapshot.reset.v
         IN  IF remaining < RateLimitThreshold
             THEN IF current_time < reset_time
                  THEN RateLimitProtection(remaining, reset_time)
                  ELSE ApiOk
             ELSE ApiOk

(***************************************************************************)
(* The upstream: what GitHub holds for each login, and what it can answer  *)
(***************************************************************************)
Usernames == {"alice", "bob"}

\* user(login) of the stats query: the counters, and the stargazer counts of
\* the repositories page by page (api.rs 161-201).
UserData(login) ==
    IF login = "alice"
    THEN [pull_requests |-> 5, merged_pull_requests |-> None,
          open_issues |-> 3, closed_issues |-> 4,
          repository_discussions |-> None,
          repository_discussion_comments |-> None,
          pages |-> << <<3, 2>>, <<1>>, <<4>> >>]
    ELSE [pull_requests |-> 3, merged_pull_requests |-> Some(2),
          open_issues |-> 0, closed_issues |-> 2,
          repository_discussions |-> Some(1),
          repository_discussion_comments |-> Some(1),
          pages |-> << <<6>>, <<0, 2>> >>]

\* user(login).repositories of the languages query, page by page (api.rs 231-252).
LangEdge(name, size_bytes) == [name |-> name, size_bytes |-> size_bytes]
RepoNode(name, edges) == [name |-> name, edges |-> edges]

LanguagesData(login) ==
    IF login = "alice"
    THEN << <<RepoNode("r1", <<LangEdge("Rust", 1000), LangEdge("Python", 2000)>>)>>,
            <<RepoNode("r2", <<LangEdge("Rust", 500)>>)>> >>
    ELSE << <<RepoNode("r1", <<LangEdge("Go", 300)>>),
              RepoNode("r3", <<LangEdge("Go", 200)>>)>> >>

\* The page a query with cursor `after` selects (0 is the null cursor, i the
\* end cursor of page i), with its pageInfo.
Page(pages, after) ==
    [nodes |-> pages[after + 1],
     has_next_page |-> after + 1 < Len(pages),
     end_cursor |-> after + 1]

\* Response headers x-ratelimit-limit / -remaining / -used / -reset.
HeaderMap(l, r, u, t) == [limit |-> l, remaining |-> r, used |-> u, reset |-> t]

NoHeaders == HeaderMap(Absent, Absent, Absent, Absent)
PlentyLeft == HeaderMap(Hdr(<<"5", "0", "0", "0">>), Hdr(<<"1", "0", "0">>), Hdr(<<"4", "9", "0", "0">>), Hdr(<<"1", "8", "0", "0">>))
FewLeft == HeaderMap(Hdr(<<"5", "0", "0", "0">>), Hdr(<<"+", "9", "9">>), Hdr(<<"4", "9", "0", "1">>), Hdr(<<"1", "8", "0", "0">>))

HeaderMaps ==
    { NoHeaders, PlentyLeft, FewLeft,
      HeaderMap(Hdr(<<"5", "0", "0", "0">>), Hdr(<<"a", "b", "c">>), Hdr(<<"4", "9", "0", "1">>), Hdr(<<"1", "8", "0", "0">>)),
      HeaderMap(Hdr(<<"5", "0", "0", "0">>), Hdr(<<"9", "9">>), Hdr(<<"4", "9", "0", "1">>), Absent),
      HeaderMap(Hdr(<<"-", "1">>), Hdr(<< >>), Hdr(<<"0xE9">>), Hdr(<<"9", " ">>)) }

\* A response body: whether it decodes as GraphQLResponse<T>, and if it does
\* its data (null, a null user, or the page asked for) and its errors (absent,
\* an empty list, or a list whose first error is NOT_FOUND or something else).
Body(decodes, data, errors) == [decodes |-> decodes, data |-> data, errors |-> errors]
Undecodable == Body(FALSE, "null", "absent")
OtherErrorMessage == "Something went wrong"

\* What send().await yields: a transport error, or an HTTP response.
SendError == [kind |-> "send_error", status |-> 0,
              headers |-> NoHeaders, body |-> Undecodable]
HttpResponse(status, headers, body) ==
    [kind |-> "http", status |-> status, headers |-> headers, body |-> body]
NoResponse == [SendError EXCEPT !.kind = "none"]

is_success(status) == 200 <= status /\ status <= 299

\* Every status with every header map; every envelope under a 2xx and under
\* another status, with the headers GitHub sends while quota is left or low.
Responses ==
    {SendError}
    \cup { HttpResponse(st, h, Undecodable) : st \in {200, 401, 429, 500}, h \in HeaderMaps }
    \cup { HttpResponse(st, h, b) :
              st \in {200, 500}, h \in {PlentyLeft, FewLeft},
              b \in { Body(TRUE, d, e) : d \in {"null", "user_null", "page"},
                                         e \in {"absent", "empty", "not_found", "other"} } }

(***************************************************************************)
(* A request task running fetch_user_stats_uncached or                     *)
(* fetch_user_languages_uncached                                           *)
(***************************************************************************)
Tasks == {"t1"}

\* pc: idle, preflight (about to enter execute_query), posted (request sent,
\* send().await pending), received (send() has resolved), done.
\* requested: the cursors queried so far; saw_errors / saw_null_user: history
\* of the envelopes execute_query has handed to this fetch.
NoTask == [pc |-> "idle", fn |-> "-", login |-> "-", exclude_repos |-> << >>,
           first |-> FALSE, after |-> 0, requested |-> << >>,
           all_repositories |-> << >>, all_repos |-> << >>,
           response |-> NoResponse, result |-> ApiNone,
           saw_errors |-> "-", saw_null_user |-> FALSE]

\* The latest execute_query of a task: whether the governor was consulted,
\* the snapshot and the time it saw, what it answered, and what execute_query
\* returned.
NoExec == [checked |-> FALSE, seen |-> DefaultRateLimit, at |-> 0,
           admit |-> ApiNone, ret |-> ApiNone]

\* The threads of the runtime that call the two snapshot functions.
Threads == {"th1", "th2", "th3"}

InitApiVars ==
    /\ rate_limit = DefaultRateLimit
    /\ task = [t \in Tasks |-> NoTask]
    /\ exec = [t \in Tasks |-> NoExec]
    /\ rwlock = [writer |-> "none", readers |-> {}]
    /\ thread = [th \in Threads |-> [pc |-> "idle", headers |-> NoHeaders]]
    /\ history = [completed |-> DefaultRateLimit, read |-> FALSE,
                  got |-> DefaultRateLimit, expected |-> DefaultRateLimit]

RECURSIVE SumSeq(_)
SumSeq(q) == IF q = << >> THEN 0 ELSE Head(q) + SumSeq(Tail(q))

RECURSIVE Flatten(_)
Flatten(qq) == IF qq = << >> THEN << >> ELSE Head(qq) \o Flatten(Tail(qq))

\* api.rs 426-448: the record built from the first page's user and the
\* repositories collected.
BuildStats(user, all_repositories) ==
    [total_stars |-> SumSeq(all_repositories),
     total_issues |-> user.open_issues + user.closed_issues,
     total_prs |-> user.pull_requests,
     total_merged_prs |->
        IF user.merged_pull_requests.some THEN user.merged_pull_requests.v ELSE 0,
     total_discussions_started |->
        IF user.repository_discussions.some THEN user.repository_discussions.v ELSE 0,
     total_discussions_answered |->
        IF user.repository_discussion_comments.some
        THEN user.repository_discussion_comments.v ELSE 0]

\* api.rs 521-540: the edges of the repositories that are not excluded.
RECURSIVE CollectEdges(_, _)
CollectEdges(repos, exclude_set) ==
    IF repos = << >> THEN << >>
    ELSE (IF Head(repos).name \in exclude_set THEN << >> ELSE Head(repos).edges)
         \o CollectEdges(Tail(repos), exclude_set)

RECURSIVE SizeOf(_, _)
SizeOf(edges, name) ==
    IF edges = << >> THEN 0
    ELSE (IF Head(edges).name = name THEN Head(edges).size_bytes ELSE 0)
         + SizeOf(Tail(edges), name)

RECURSIVE CountOf(_, _)
CountOf(edges, name) ==
    IF edges = << >> THEN 0
    ELSE (IF Head(edges).name = name THEN 1 ELSE 0) + CountOf(Tail(edges), name)

\* The loop with the accumulation replaced by an assignment: each edge
\* overwrites the size of its language.
RECURSIVE GroupEdgesOverwriting(_, _)
GroupEdgesOverwriting(edges, stats_map) ==
    IF edges = << >> THEN stats_map
    ELSE LET edge == Head(edges)
             entry == IF edge.name \in DOMAIN stats_map
                      THEN stats_map[edge.name]
                      ELSE [name |-> edge.name, size_bytes |-> 0, repo_count |-> 0]
             updated == [entry EXCEPT !.size_bytes = edge.size_bytes,
                                      !.repo_count = @ + 1]
         IN  GroupEdgesOverwriting(Tail(edges),
                [n \in DOMAIN stats_map \cup {edge.name} |->
                    IF n = edge.name THEN updated ELSE stats_map[n]])

\* langs_card.rs 33-46: the loop over the edges, from the empty map;
\* entry(name).or_insert_with(..) starts a language at 0 and 0.
RECURSIVE GroupEdges(_, _)
GroupEdges(edges, stats_map) ==
    IF edges = << >> THEN stats_map
    ELSE LET edge == Head(edges)
             entry == IF edge.name \in DOMAIN stats_map
                      THEN stats_map[edge.name]
                      ELSE [name |-> edge.name, size_bytes |-> 0, repo_count |-> 0]
             updated == [entry EXCEPT !.size_bytes = @ + edge.size_bytes,
                                      !.repo_count = @ + 1]
         IN  GroupEdges(Tail(edges),
                [n \in DOMAIN stats_map \cup {edge.name} |->
                    IF n = edge.name THEN updated ELSE stats_map[n]])

\* langs_card.rs 48: stats_map.into_values().collect() yields the values in
\* the map's iteration order, which the HashMap's random state decides: any
\* enumeration of the values is a possible Vec.
IntoValues(stats_map) ==
    LET names == DOMAIN stats_map
        k == Cardinality(names)
    IN  { [i \in 1..k |-> stats_map[order[i]]] :
            order \in { f \in [1..k -> names] : \A n \in names : \E i \in 1..k : f[i] = n } }

\* langs_card.rs 32-49: LanguageStat::from_edges, as the set of the elements
\* of the Vec it returns.
from_edges(edges) ==
    LET stats_map == GroupEdges(edges, << >>)
    IN  { stats_map[n] : n \in DOMAIN stats_map }

Range(q) == { q[i] : i \in 1..Len(q) }

\* The fetch returns r.
Finish(tk, r) == [tk EXCEPT !.pc = "done", !.result = r, !.response = NoResponse]

\* The fetch goes round its loop: the next execute_query, with this cursor.
NextQuery(tk, cursor) ==
    [tk EXCEPT !.pc = "preflight", !.first = FALSE, !.after = cursor,
               !.requested = Append(@, cursor), !.response = NoResponse]

\* api.rs 382-390 / 502-509: the first GraphQL error, if there is one.
HasError(env) == env.errors \in {"not_found", "other"}
MapError(env) ==
    IF env.errors = "not_found" THEN UserNotFound ELSE GraphQLError(OtherErrorMessage)

\* api.rs 379-401 and 426-450: the envelope of the first stats query.
StatsFirstPage(tk, env) ==
    IF HasError(env) THEN Finish(tk, MapError(env))
    ELSE IF env.data = "null" THEN Finish(tk, GraphQLError("No data in response"))
    ELSE IF env.data = "user_null" THEN Finish(tk, UserNotFound)
    ELSE LET page == Page(UserData(tk.login).pages, tk.after)
             got == [tk EXCEPT !.all_repositories = page.nodes]
         IN  IF page.has_next_page
             THEN NextQuery(got, page.end_cursor)
             ELSE Finish(got, OkStats(BuildStats(UserData(tk.login), got.all_repositories)))

\* api.rs 403-450: the envelope of a later repositories query. Its errors
\* are not looked at; without data or user the loop is left.
StatsNextPage(tk, env) ==
    IF env.data = "page"
    THEN LET page == Page(UserData(tk.login).pages, tk.after)
             got == [tk EXCEPT !.all_repositories = @ \o page.nodes]
         IN  IF page.has_next_page
             THEN NextQuery(got, page.end_cursor)
             ELSE Finish(got, OkStats(BuildStats(UserData(tk.login), got.all_repositories)))
    ELSE Finish(tk, OkStats(BuildStats(UserData(tk.login), tk.all_repositories)))

\* api.rs 491-545: the envelope of a languages query, first or later.
LanguagesPage(tk, env) ==
    IF HasError(env) THEN Finish(tk, MapError(env))
    ELSE IF env.data = "null" THEN Finish(tk, GraphQLError("No data in response"))
    ELSE IF env.data = "user_null" THEN Finish(tk, UserNotFound)
    ELSE LET page == Page(LanguagesData(tk.login), tk.after)
             got == [tk EXCEPT !.all_repos = @ \o page.nodes]
         IN  IF page.has_next_page
             THEN NextQuery(got, page.end_cursor)
             ELSE Finish(got, [ApiOk EXCEPT !.langs = from_edges(
                      CollectEdges(got.all_repos, Range(tk.exclude_repos)))])

(***************************************************************************)
(* A caller's state                                                        *)
(***************************************************************************)
Idle == [pc |-> "idle", fn |-> "-", key |-> "-"]
Fetching(fn, key) == [pc |-> "fetching", fn |-> fn, key |-> key]

\* What a call returned: the Result, whether the call ran fetch_fn, and, when
\* it was the second of two sequential calls with the same key inside the
\* entry's time to live, the value the first one returned.
Returned(r, ran, rep, first) ==
    [result |-> r, ran |-> ran, repeat |-> rep, first |-> IF rep THEN first ELSE "-"]

NoPrev == [ok |-> FALSE, fn |-> "-", key |-> "-", value |-> "-", inserted_at |-> 0]
PrevEntry(fn, key, v, t) ==
    [ok |-> TRUE, fn |-> fn, key |-> key, value |-> v, inserted_at |-> t]

\* The call (fn, key) that caller c starts now follows a successful call of
\* c with the same key, the time to live of the entry that call returned has
\* not elapsed, and the entry was not evicted.
IsRepeat(c, fn, key, ttl) ==
    /\ prev[c].ok
    /\ prev[c].fn = fn
    /\ prev[c].key = key
    /\ now < prev[c].inserted_at + ttl

\* No function of the card layer is being called.
NoCall == [fn |-> "none"]

InitCacheVars ==
    /\ stats_cache = [u \in CachedUsers |-> NoEntry]
    /\ languages_cache = [k \in CacheKeys |-> NoEntry]
    /\ call = [c \in Callers |-> Idle]
    /\ last = [c \in Callers |->
                 [result |-> NoResult, ran |-> FALSE, repeat |-> FALSE, first |-> "-"]]
    /\ prev = [c \in Callers |-> NoPrev]

InitCache ==
    /\ now = 0
    /\ token = "some"
    /\ InitCacheVars
    /\ InitApiVars
    /\ input = NoCall
    /\ output = NoCall

(***************************************************************************)
(* GitHubCache::get_or_insert_user_stats                                   *)
(***************************************************************************)
\* cache.rs 136-142: the lookup. A hit returns the cached value; a miss
\* calls fetch_fn and suspends on it.
GetOrInsertUserStatsLookup(c, username) ==
    /\ call[c].pc = "idle"
    /\ LET hit == CacheGet(stats_cache, username, user_stats_ttl)
           rep == IsRepeat(c, "stats", username, user_stats_ttl)
       IN  IF hit.present
           THEN /\ call' = call
                /\ last' = [last EXCEPT ![c] =
                      Returned(Ok(hit.value), FALSE, rep, prev[c].value)]
                /\ prev' = [prev EXCEPT ![c] =
                      PrevEntry("stats", username, hit.value, hit.inserted_at)]
           ELSE /\ call' = [call EXCEPT ![c] = Fetching("stats", username)]
                /\ last' = [last EXCEPT ![c] =
                      Returned(NoResult, TRUE, rep, prev[c].value)]
                /\ prev' = prev
    /\ UNCHANGED <<lockVars, input, output, token, rate_limit, task, exec, now, stats_cache, languages_cache>>

\* cache.rs 142-147: fetch_fn completes. `?` returns its error; a value is
\* inserted under the key and returned.
GetOrInsertUserStatsFetched(c, outcome) ==
    /\ call[c].pc = "fetching"
    /\ call[c].fn = "stats"
    /\ IF outcome.tag = "err"
       THEN /\ stats_cache' = stats_cache
            /\ prev' = [prev EXCEPT ![c] = NoPrev]
       ELSE /\ stats_cache' = CacheInsert(stats_cache, call[c].key, outcome.val)
            /\ prev' = [prev EXCEPT ![c] =
                  PrevEntry("stats", call[c].key, outcome.val, now)]
    /\ last' = [last EXCEPT ![c].result = outcome]
    /\ call' = [call EXCEPT ![c] = Idle]
    /\ UNCHANGED <<lockVars, input, output, token, rate_limit, task, exec, now, languages_cache>>

(***************************************************************************)
(* GitHubCache::get_or_insert_user_languages                               *)
(***************************************************************************)
\* cache.rs 163-171
GetOrInsertUserLanguagesLookup(c, username, excluded_repos) ==
    /\ call[c].pc = "idle"
    /\ LET key == user_languages(username, excluded_repos)
           hit == CacheGet(languages_cache, key, user_languages_ttl)
           rep == IsRepeat(c, "languages", key, user_languages_ttl)
       IN  IF hit.present
           THEN /\ call' = call
                /\ last' = [last EXCEPT ![c] =
                      Returned(Ok(hit.value), FALSE, rep, prev[c].value)]
                /\ prev' = [prev EXCEPT ![c] =
                      PrevEntry("languages", key, hit.value, hit.inserted_at)]
           ELSE /\ call' = [call EXCEPT ![c] = Fetching("languages", key)]
                /\ last' = [last EXCEPT ![c] =
                      Returned(NoResult, TRUE, rep, prev[c].value)]
                /\ prev' = prev
    /\ UNCHANGED <<lockVars, input, output, token, rate_limit, task, exec, now, stats_cache, languages_cache>>

\* cache.rs 171-176
GetOrInsertUserLanguagesFetched(c, outcome) ==
    /\ call[c].pc = "fetching"
    /\ call[c].fn = "languages"
    /\ IF outcome.tag = "err"
       THEN /\ languages_cache' = languages_cache
            /\ prev' = [prev EXCEPT ![c] = NoPrev]
       ELSE /\ languages_cache' = CacheInsert(languages_cache, call[c].key, outcome.val)
            /\ prev' = [prev EXCEPT ![c] =
                  PrevEntry("languages", call[c].key, outcome.val, now)]
    /\ last' = [last EXCEPT ![c].result = outcome]
    /\ call' = [call EXCEPT ![c] = Idle]
    /\ UNCHANGED <<lockVars, input, output, token, rate_limit, task, exec, now, stats_cache>>

(***************************************************************************)
(* The environment of the cache: the clock, and moka's size-based eviction *)
(***************************************************************************)
Tick ==
    /\ now + TickStep <= MaxNow
    /\ now' = now + TickStep
    /\ UNCHANGED <<input, output, cacheVars, apiVars>>

\* An entry the caller's previous call returned is gone once it is evicted.
Forget(fn, key) ==
    [c \in Callers |->
        IF prev[c].ok /\ prev[c].fn = fn /\ prev[c].key = key THEN NoPrev ELSE prev[c]]

EvictStats(username) ==
    /\ stats_cache[username].present
    /\ stats_cache' = [stats_cache EXCEPT ![username] = NoEntry]
    /\ prev' = Forget("stats", username)
    /\ UNCHANGED <<lockVars, input, output, token, rate_limit, task, exec, now, languages_cache, call, last>>

EvictLanguages(key) ==
    /\ languages_cache[key].present
    /\ languages_cache' = [languages_cache EXCEPT ![key] = NoEntry]
    /\ prev' = Forget("languages", key)
    /\ UNCHANGED <<lockVars, input, output, token, rate_limit, task, exec, now, stats_cache, call, last>>

\* What a producer can fetch, and the errors it can end with.
ProducerOutcomes ==
    {Ok(v) : v \in {"v1", "v2"}}
    \cup {[tag |-> "err", val |-> e] : e \in {"UserNotFound", "NetworkError"}}

NextCache ==
    \/ \E c \in Callers, u \in CachedUsers : GetOrInsertUserStatsLookup(c, u)
    \/ \E c \in Callers, o \in ProducerOutcomes : GetOrInsertUserStatsFetched(c, o)
    \/ \E c \in Callers, u \in CachedUsers, e \in ExcludeLists :
          GetOrInsertUserLanguagesLookup(c, u, e)
    \/ \E c \in Callers, o \in ProducerOutcomes : GetOrInsertUserLanguagesFetched(c, o)
    \/ \E u \in CachedUsers : EvictStats(u)
    \/ \E k \in CacheKeys : EvictLanguages(k)
    \/ Tick

SpecCache == InitCache /\ [][NextCache]_vars

(***************************************************************************)
(* GitHubApi: the two uncached fetches and execute_query                   *)
(***************************************************************************)
\* api.rs 366-380: fetch_user_stats_uncached up to its first execute_query.
FetchUserStatsUncached(t, username) ==
    /\ task[t].pc = "idle"
    /\ task' = [task EXCEPT ![t] =
          [NoTask EXCEPT !.pc = "preflight", !.fn = "stats", !.login = username,
                         !.first = TRUE, !.requested = <<0>>]]
    /\ exec' = [exec EXCEPT ![t] = NoExec]
    /\ UNCHANGED <<lockVars, input, output, now, cacheVars, token, rate_limit>>

\* api.rs 481-499: fetch_user_languages_uncached up to its first execute_query.
FetchUserLanguagesUncached(t, username, exclude_repos) ==
    /\ task[t].pc = "idle"
    /\ task' = [task EXCEPT ![t] =
          [NoTask EXCEPT !.pc = "preflight", !.fn = "languages", !.login = username,
                         !.exclude_repos = exclude_repos, !.requested = <<0>>]]
    /\ exec' = [exec EXCEPT ![t] = NoExec]
    /\ UNCHANGED <<lockVars, input, output, now, cacheVars, token, rate_limit>>

\* api.rs 267-270: the token, then check_rate_limit_before_request on the
\* snapshot read under the lock.
\* execute_query without its call of check_rate_limit_before_request.
PreflightSkipsGovernor(tok, snapshot, current_time) ==
    IF tok = "none" THEN MissingToken ELSE ApiOk

Preflight(tok, snapshot, current_time) ==
    IF tok = "none" THEN MissingToken
    ELSE check_rate_limit_with_data(snapshot, current_time)

\* api.rs 259-301: execute_query up to the POST. `?` on either check returns
\* from execute_query and, through the fetch's own `?`, from the fetch.
ExecuteQueryPreflight(t) ==
    /\ task[t].pc = "preflight"
    /\ LET pre == Preflight(token, rate_limit, now)
       IN  /\ exec' = [exec EXCEPT ![t] =
                 [checked |-> token # "none", seen |-> rate_limit, at |-> now,
                  admit |-> IF token = "none" THEN ApiNone ELSE pre,
                  ret |-> IF pre.tag = "err" THEN pre ELSE ApiNone]]
           /\ task' = [task EXCEPT ![t] =
                 IF pre.tag = "err" THEN Finish(@, pre) ELSE [@ EXCEPT !.pc = "posted"]]
    /\ UNCHANGED <<lockVars, input, output, now, cacheVars, token, rate_limit>>

\* api.rs 294-301: send().await resolves.
UpstreamResponds(t, response) ==
    /\ task[t].pc = "posted"
    /\ task' = [task EXCEPT ![t].pc = "received", ![t].response = response]
    /\ UNCHANGED <<lockVars, input, output, now, cacheVars, token, rate_limit, exec>>

\* api.rs 302-345: what execute_query returns for what send() yielded.
ExecuteQueryReturn(response) ==
    IF response.kind = "send_error" THEN NetworkError("send")
    ELSE IF response.status = 401 THEN MissingToken
    ELSE IF response.status = 429 THEN RateLimitExceeded
    ELSE IF ~response.body.decodes THEN NetworkError("decode")
    ELSE ApiOk

\* api.rs 309-314: the snapshot after execute_query has handled the response.
SnapshotAfter(snapshot, response) ==
    IF response.kind = "send_error" THEN snapshot
    ELSE IF response.status = 401 THEN snapshot
    ELSE update_rate_limit_from_headers(snapshot, response.headers)

\* The envelope history of the fetch.
Saw(tk, env) ==
    [tk EXCEPT !.saw_errors = IF @ = "-" /\ HasError(env) THEN env.errors ELSE @,
               !.saw_null_user = @ \/ (env.data = "user_null" /\ ~HasError(env))]

\* api.rs 302-345, then the fetch's handling of what execute_query returned:
\* api.rs 380-450 (stats) or 499-545 (languages).
ExecuteQueryResponse(t) ==
    /\ task[t].pc = "received"
    /\ LET response == task[t].response
           ret == ExecuteQueryReturn(response)
           env == response.body
       IN  /\ rate_limit' = SnapshotAfter(rate_limit, response)
           /\ exec' = [exec EXCEPT ![t] = [NoExec EXCEPT !.ret = ret]]
           /\ task' = [task EXCEPT ![t] =
                 IF ret.tag = "err" THEN Finish(@, ret)
                 ELSE IF @.fn = "languages" THEN LanguagesPage(Saw(@, env), env)
                 ELSE IF @.first THEN StatsFirstPage(Saw(@, env), env)
                 ELSE StatsNextPage(Saw(@, env), env)]
    /\ UNCHANGED <<lockVars, input, output, now, cacheVars, token>>

\* The fetch's caller takes the result.
TaskReturn(t) ==
    /\ task[t].pc = "done"
    /\ task' = [task EXCEPT ![t] = NoTask]
    /\ exec' = [exec EXCEPT ![t] = NoExec]
    /\ UNCHANGED <<lockVars, input, output, now, cacheVars, token, rate_limit>>

\* api.rs 314 in a concurrent request task: the snapshot is process-wide, and
\* every other request in flight stores its own response's headers in it.
ConcurrentRequestUpdates(headers) ==
    /\ rate_limit' = update_rate_limit_from_headers(rate_limit, headers)
    /\ rate_limit' # rate_limit
    /\ UNCHANGED <<lockVars, input, output, now, cacheVars, token, task, exec>>

\* GitHubApi::new (api.rs 116-121) reads GITHUB_TOKEN once.
InitApi ==
    /\ now = 0
    /\ token \in {"none", "some"}
    /\ InitCacheVars
    /\ InitApiVars
    /\ input = NoCall
    /\ output = NoCall

NextApi ==
    \/ \E t \in Tasks, u \in Usernames : FetchUserStatsUncached(t, u)
    \/ \E t \in Tasks, u \in Usernames, e \in {<< >>, <<"r1">>} :
          FetchUserLanguagesUncached(t, u, e)
    \/ \E t \in Tasks : ExecuteQueryPreflight(t)
    \/ \E t \in Tasks, r \in Responses : UpstreamResponds(t, r)
    \/ \E t \in Tasks : ExecuteQueryResponse(t)
    \/ \E t \in Tasks : TaskReturn(t)
    \/ \E h \in HeaderMaps : ConcurrentRequestUpdates(h)
    \/ Tick

SpecApi == InitApi /\ [][NextApi]_vars

\* The same under a wall clock that goes on: SystemTime::now() of api.rs
\* 86-89 is later at every later check, whatever the requests do.
FairSpecApi == SpecApi /\ WF_vars(Tick)

(***************************************************************************)
(* The snapshot behind its RwLock (api.rs 19-65), with the threads of the  *)
(* runtime calling update_rate_limit_from_headers and                      *)
(* get_github_rate_limit side by side.  The write guard is held from       *)
(* state.write() until the function returns, the read guard from           *)
(* state.read() until the clone has been made.  Between taking a guard and *)
(* dropping it the functions call only Option combinators, none of which   *)
(* panics, so no thread poisons the lock and unwrap_or_else always gets Ok. *)
(***************************************************************************)
\* A read that does not wait for the writer.
read_ignoring_writer(lock) == TRUE
\* RwLock::read returns a guard while no writer holds the lock.
read_available(lock) == lock.writer = "none"

\* RwLock::write returns a guard while nobody holds the lock.
write_available(lock) == lock.writer = "none" /\ lock.readers = {}

\* api.rs 38-42: a thread enters update_rate_limit_from_headers with the
\* headers of its response and gets the write guard.
WriteLock(th, headers) ==
    /\ thread[th].pc = "idle"
    /\ write_available(rwlock)
    /\ rwlock' = [rwlock EXCEPT !.writer = th]
    /\ thread' = [thread EXCEPT ![th] = [pc |-> "limit", headers |-> headers]]
    /\ UNCHANGED <<rate_limit, history, token, task, exec, input, output, now, cacheVars>>

\* api.rs 45-64: the four assignments, one field at a time; the guard is
\* dropped after the last.
StoreField(th) ==
    LET parsed == update_rate_limit_from_headers(rate_limit, thread[th].headers)
        pc == thread[th].pc
    IN  /\ pc \in {"limit", "remaining", "used", "reset"}
        /\ rwlock.writer = th
        /\ rate_limit' =
             CASE pc = "limit" -> [rate_limit EXCEPT !.limit = parsed.limit]
               [] pc = "remaining" -> [rate_limit EXCEPT !.remaining = parsed.remaining]
               [] pc = "used" -> [rate_limit EXCEPT !.used = parsed.used]
               [] pc = "reset" -> [rate_limit EXCEPT !.reset = parsed.reset]
        /\ thread' = [thread EXCEPT ![th].pc =
                        CASE pc = "limit" -> "remaining" [] pc = "remaining" -> "used"
                          [] pc = "used" -> "reset" [] pc = "reset" -> "idle"]
        /\ rwlock' = IF pc = "reset" THEN [rwlock EXCEPT !.writer = "none"] ELSE rwlock
        /\ history' = IF pc = "reset" THEN [history EXCEPT !.completed = parsed] ELSE history
        /\ UNCHANGED <<token, task, exec, input, output, now, cacheVars>>

\* api.rs 28-33: a thread enters get_github_rate_limit and gets a read guard.
ReadLock(th) ==
    /\ thread[th].pc = "idle"
    /\ read_available(rwlock)
    /\ rwlock' = [rwlock EXCEPT !.readers = @ \cup {th}]
    /\ thread' = [thread EXCEPT ![th].pc = "reading"]
    /\ UNCHANGED <<rate_limit, history, token, task, exec, input, output, now, cacheVars>>

\* api.rs 34: guard.clone() is returned and the guard dropped.
CloneSnapshot(th) ==
    /\ thread[th].pc = "reading"
    /\ history' = [history EXCEPT !.read = TRUE, !.got = rate_limit,
                                  !.expected = history.completed]
    /\ rwlock' = [rwlock EXCEPT !.readers = @ \ {th}]
    /\ thread' = [thread EXCEPT ![th].pc = "idle"]
    /\ UNCHANGED <<rate_limit, token, task, exec, input, output, now, cacheVars>>

NextSnapshot ==
    \/ \E th \in Threads, h \in {NoHeaders, PlentyLeft, FewLeft} : WriteLock(th, h)
    \/ \E th \in Threads : StoreField(th)
    \/ \E th \in Threads : ReadLock(th)
    \/ \E th \in Threads : CloneSnapshot(th)

SpecSnapshot == InitApi /\ [][NextSnapshot]_vars

(***************************************************************************)
(* Claims about the response cache                                         *)
(***************************************************************************)
SameKey(c1, c2) == call[c1].fn = call[c2].fn /\ call[c1].key = call[c2].key

\* C1: single-flight: no two callers are running fetch_fn for the same key at
\* the same time.
C1_SingleFlight ==
    \A c1, c2 \in Callers :
        (c1 # c2 /\ call[c1].pc = "fetching" /\ call[c2].pc = "fetching")
            => ~SameKey(c1, c2)

LiveStats(cache, t, key) ==
    cache[key].present /\ t < cache[key].inserted_at + user_stats_ttl
LiveLanguages(cache, t, key) ==
    cache[key].present /\ t < cache[key].inserted_at + user_languages_ttl

\* C2: when fetch_fn returns an error the call returns it and the cache holds
\* no entry for the key afterwards, so that the next call for the key runs
\* fetch_fn again.
C2_FailureLeavesNoEntry ==
    [][\A c \in Callers :
          (call[c].pc = "fetching" /\ call'[c].pc = "idle"
              /\ last'[c].result.tag = "err")
          => IF call[c].fn = "stats"
             THEN ~LiveStats(stats_cache', now', call[c].key)
             ELSE ~LiveLanguages(languages_cache', now', call[c].key)]_vars

\* C3: the second of two sequential calls with the same key, started before
\* the entry's time to live has elapsed and with the entry not evicted, does
\* not run fetch_fn and returns the value the first call returned.
C3_SecondCallSameValue ==
    \A c \in Callers :
        last[c].repeat =>
            /\ ~last[c].ran
            /\ last[c].result = Ok(last[c].first)

(***************************************************************************)
(* Claims about the rate-limit governor and the GraphQL client             *)
(***************************************************************************)
\* Admission as the specification states it: no remaining or no reset yet,
\* or remaining >= 100, or the clock has reached reset.
Admits(snapshot, current_time) ==
    \/ ~snapshot.remaining.some
    \/ ~snapshot.reset.some
    \/ snapshot.remaining.v >= 100
    \/ current_time >= snapshot.reset.v

\* C4: for every snapshot and time the governor was consulted with, it
\* answered Ok exactly when admission holds, and otherwise
\* RateLimitProtection carrying the snapshot's remaining and reset.
C4_AdmissionDecision ==
    \A t \in Tasks :
        exec[t].checked =>
            IF Admits(exec[t].seen, exec[t].at)
            THEN exec[t].admit = ApiOk
            ELSE exec[t].admit =
                    RateLimitProtection(exec[t].seen.remaining.v, exec[t].seen.reset.v)

\* The governor has denied a request with 99 remaining before the reset.
C4_Witness ==
    \E t \in Tasks :
        /\ exec[t].checked
        /\ exec[t].seen.remaining = Some(99)
        /\ exec[t].at < exec[t].seen.reset.v
        /\ exec[t].admit = RateLimitProtection(99, 1800)

\* C5: execute_query without a token returns MissingToken, and with the
\* governor denying returns RateLimitProtection, in both cases sending no
\* POST and leaving the snapshot as it was; a POST is sent only by the step
\* of execute_query in which the token was there and the governor admitted.
C5_PreflightFailFast ==
    [][\A t \in Tasks :
          /\ (task[t].pc = "preflight" /\ task'[t] # task[t]) =>
                IF token = "none"
                THEN /\ task'[t].pc = "done"
                     /\ task'[t].result = MissingToken
                     /\ rate_limit' = rate_limit
                ELSE IF ~Admits(rate_limit, now)
                THEN /\ task'[t].pc = "done"
                     /\ task'[t].result.kind = "RateLimitProtection"
                     /\ rate_limit' = rate_limit
                ELSE task'[t].pc = "posted"
          /\ (task[t].pc # "posted" /\ task'[t].pc = "posted") =>
                /\ task[t].pc = "preflight"
                /\ token = "some"
                /\ Admits(rate_limit, now)]_vars

\* A fetch has been turned away by the governor before any POST.
C5_Witness ==
    \E t \in Tasks :
        /\ task[t].pc = "done"
        /\ task[t].result.kind = "RateLimitProtection"
        /\ exec[t].checked

\* The step in which execute_query handles an HTTP response.
HandlesHttp(t) ==
    /\ task[t].pc = "received"
    /\ task[t].response.kind = "http"
    /\ task'[t].pc # "received"

\* C6: when execute_query has handled an HTTP response, whatever its status,
\* the snapshot is the one updated from that response's headers.
C6_UpdateAfterEveryResponse ==
    [][\A t \in Tasks :
          HandlesHttp(t) =>
              rate_limit' = update_rate_limit_from_headers(rate_limit, task[t].response.headers)]_vars

\* The value a field has after an update that keeps what it cannot parse.
KeptOrParsed(old, header) == IF HeaderU64(header).some THEN HeaderU64(header) ELSE old

\* C7: an update from headers (execute_query on a response other than 401)
\* gives a field the parsed value of its header when the header is present
\* and numeric, and leaves the field as it was otherwise.
C7_AbsentHeaderKeepsField ==
    [][\A t \in Tasks :
          (HandlesHttp(t) /\ task[t].response.status # 401) =>
              LET h == task[t].response.headers
              IN  /\ rate_limit'.limit = KeptOrParsed(rate_limit.limit, h.limit)
                  /\ rate_limit'.remaining = KeptOrParsed(rate_limit.remaining, h.remaining)
                  /\ rate_limit'.used = KeptOrParsed(rate_limit.used, h.used)
                  /\ rate_limit'.reset = KeptOrParsed(rate_limit.reset, h.reset)]_vars

\* C8: execute_query maps 401 to MissingToken, 429 to RateLimitExceeded and
\* every other non-2xx status to NetworkError, and returns Ok only for a 2xx
\* response whose body decodes.
C8_StatusMapping ==
    [][\A t \in Tasks :
          HandlesHttp(t) =>
              LET status == task[t].response.status
                  ret == exec'[t].ret
              IN  /\ status = 401 => ret = MissingToken
                  /\ status = 429 => ret = RateLimitExceeded
                  /\ (~is_success(status) /\ status \notin {401, 429})
                        => ret.kind = "NetworkError"
                  /\ ret = ApiOk => (is_success(status) /\ task[t].response.body.decodes)]_vars

\* C9: a fetch that was handed an envelope with a non-empty errors list, on
\* any page, returns UserNotFound when the first error is NOT_FOUND and
\* GraphQLError(message) otherwise, never a record; a null user yields
\* UserNotFound.
C9_GraphQLErrorOnEveryPage ==
    \A t \in Tasks :
        task[t].pc = "done" =>
            /\ task[t].saw_errors = "not_found" => task[t].result = UserNotFound
            /\ task[t].saw_errors = "other" =>
                  task[t].result = GraphQLError(OtherErrorMessage)
            /\ (task[t].saw_errors = "-" /\ task[t].saw_null_user) =>
                  task[t].result = UserNotFound

\* The cursors of a complete walk over n pages: null, then each end cursor.
Cursors(n) == [i \in 1..n |-> i - 1]

\* C10: a stats record has total_stars equal to the sum of the stargazer
\* counts over every page of the user's repositories, each page queried once
\* with the previous page's end cursor; total_issues is open + closed, and
\* absent merged-PR / discussion objects count 0.
C10_StarsOverAllPages ==
    \A t \in Tasks :
        (task[t].pc = "done" /\ task[t].fn = "stats" /\ task[t].result.tag = "ok") =>
            LET user == UserData(task[t].login)
                rec == task[t].result.stats
            IN  /\ rec.total_stars = SumSeq(Flatten(user.pages))
                /\ task[t].requested = Cursors(Len(user.pages))
                /\ rec.total_issues = user.open_issues + user.closed_issues
                /\ ~user.merged_pull_requests.some => rec.total_merged_prs = 0
                /\ ~user.repository_discussions.some => rec.total_discussions_started = 0
                /\ ~user.repository_discussion_comments.some
                      => rec.total_discussions_answered = 0

(***************************************************************************)
(* SpecCalls: one call of a function or a handler that needs no state of   *)
(* the client: input is the call and its arguments, output what it         *)
(* returned.                                                               *)
(*                                                                         *)
(* GitHubApi::validate_username and the two cached fetches that call it    *)
(* first (api.rs 124-156, 350-362, 455-477).  A string is the sequence of  *)
(* its characters; "TAB" stands for U+0009 and "U+00E9" for the letter     *)
(* e-acute, which takes two bytes in UTF-8.                                *)
(***************************************************************************)
MaxShortName == 2     \* every username up to this length is tried

MaxUsernameLen == 39

NameChars == {"a", "Z", "7", "-", " ", "_", "TAB", "U+00E9"}

\* str::trim, with char::is_whitespace on NameChars
RECURSIVE trim(_)
trim(str) ==
    LET is_whitespace(c) == c \in {" ", "TAB"}
    IN  IF str # << >> /\ is_whitespace(Head(str)) THEN trim(Tail(str))
        ELSE IF str # << >> /\ is_whitespace(str[Len(str)])
             THEN trim(SubSeq(str, 1, Len(str) - 1))
        ELSE str

\* api.rs 124-156.  char::is_alphanumeric follows Unicode, and str::len
\* counts bytes.
validate_username(username) ==
    LET is_alphanumeric(c) == c \in {"a", "Z", "7", "U+00E9"}
        len == Len(username)
                 + Cardinality({ i \in 1..Len(username) : username[i] = "U+00E9" })
        InvalidUsername(message) == ApiErr("InvalidUsername", 0, 0, message)
    IN  IF trim(username) = << >>
        THEN InvalidUsername("Username cannot be empty")
        ELSE IF \E i \in 1..Len(username) : username[i] = " "
        THEN InvalidUsername("Username cannot contain spaces")
        ELSE IF len > MaxUsernameLen
        THEN InvalidUsername("Username too long")
        ELSE IF ~(\A i \in 1..Len(username) :
                     is_alphanumeric(username[i]) \/ username[i] = "-")
        THEN InvalidUsername("Username contains invalid characters")
        ELSE IF Head(username) = "-" \/ username[Len(username)] = "-"
        THEN InvalidUsername("Username cannot start or end with hyphen")
        ELSE ApiOk

\* api.rs 350-362: fetch_user_stats up to its call of the cache: it either
\* returns the error at once or goes on to the cache.
FetchUserStats ==
    /\ input.fn = "fetch_user_stats"
    /\ output = NoCall
    /\ LET v == validate_username(input.username)
       IN  output' = IF v.tag = "err"
                     THEN [fn |-> input.fn, stage |-> "returned", result |-> v]
                     ELSE [fn |-> input.fn, stage |-> "cache_lookup", result |-> ApiNone]
    /\ UNCHANGED <<input, now, cacheVars, apiVars>>

\* api.rs 455-477: fetch_user_languages up to its call of the cache.
FetchUserLanguages ==
    /\ input.fn = "fetch_user_languages"
    /\ output = NoCall
    /\ LET v == validate_username(input.username)
       IN  output' = IF v.tag = "err"
                     THEN [fn |-> input.fn, stage |-> "returned", result |-> v]
                     ELSE [fn |-> input.fn, stage |-> "cache_lookup", result |-> ApiNone]
    /\ UNCHANGED <<input, now, cacheVars, apiVars>>

(***************************************************************************)
(* fetch_user_stats / fetch_user_languages from the cache lookup to the    *)
(* return (api.rs 350-362, 455-477): the cache runs the uncached fetch on  *)
(* a miss, the fetch runs execute_query page by page, and the upstream     *)
(* answers the queries with the responses of the input, in their order.    *)
(***************************************************************************)
\* get_or_insert_* with the insert done for an error as well.
get_or_insert_keeping_errors(cache, key, ttl, fetched) ==
    LET hit == CacheGet(cache, key, ttl)
    IN  IF hit.present THEN [result |-> hit.value, cache |-> cache]
        ELSE [result |-> fetched, cache |-> CacheInsert(cache, key, fetched)]

\* cache.rs 136-147 / 163-176: a hit returns the entry; on a miss `?` returns
\* the error of fetch_fn, and a value is inserted and returned.
get_or_insert(cache, key, ttl, fetched) ==
    LET hit == CacheGet(cache, key, ttl)
    IN  IF hit.present THEN [result |-> hit.value, cache |-> cache]
        ELSE IF fetched.tag = "err" THEN [result |-> fetched, cache |-> cache]
        ELSE [result |-> fetched, cache |-> CacheInsert(cache, key, fetched)]

\* api.rs 350-362 / 455-477 with 366-450 / 481-545 and 259-345.  checks and
\* posts count the pre-flight checks and the POSTs of the fetch, page_error is
\* the error execute_query returned, if it returned one.
CachedFetch ==
    /\ input.fn = "fetch through the cache"
    /\ output = NoCall
    /\ LET RECURSIVE run(_, _, _, _, _)
           run(tk, snapshot, responses, checks, posts) ==
               LET pre == Preflight(input.token, snapshot, now)
                   response == Head(responses)
                   ret == ExecuteQueryReturn(response)
                   env == response.body
                   ended(t, e, p) == [task |-> t, page_error |-> e,
                                      checks |-> checks + 1, posts |-> posts + p]
                   handled == IF tk.fn = "languages" THEN LanguagesPage(Saw(tk, env), env)
                              ELSE IF tk.first THEN StatsFirstPage(Saw(tk, env), env)
                              ELSE StatsNextPage(Saw(tk, env), env)
               IN  IF pre.tag = "err" THEN ended(Finish(tk, pre), pre, 0)
                   ELSE IF ret.tag = "err" THEN ended(Finish(tk, ret), ret, 1)
                   ELSE IF handled.pc = "done" THEN ended(handled, ApiNone, 1)
                   ELSE run(handled, SnapshotAfter(snapshot, response), Tail(responses),
                            checks + 1, posts + 1)
           started == [NoTask EXCEPT !.pc = "preflight", !.fn = input.fetch,
                                     !.login = input.username,
                                     !.first = (input.fetch = "stats"), !.requested = <<0>>]
           fetch == run(started, DefaultRateLimit, input.responses, 0, 0)
           key == IF input.fetch = "stats" THEN input.username
                  ELSE user_languages(input.username, << >>)
           ttl == IF input.fetch = "stats" THEN user_stats_ttl ELSE user_languages_ttl
           returned == get_or_insert([k \in {key} |-> NoEntry], key, ttl, fetch.task.result)
       IN  output' = [fn |-> "fetch through the cache",
                      result |-> returned.result,
                      entry |-> returned.cache[key],
                      page_error |-> fetch.page_error,
                      queries |-> Len(fetch.task.requested),
                      checks |-> fetch.checks,
                      posts |-> fetch.posts]
    /\ UNCHANGED <<input, now, cacheVars, apiVars>>

(***************************************************************************)
(* langs_card.rs: from_edges, rank, ranked, total_rank and top_n.          *)
(***************************************************************************)
MaxEdges == 3         \* longest edge list given to from_edges

\* langs_card.rs 32-49: LanguageStat::from_edges returns the Vec.
FromEdges ==
    /\ input.fn = "from_edges"
    /\ output = NoCall
    /\ \E vec \in IntoValues(GroupEdges(input.edges, << >>)) :
          output' = [fn |-> "from_edges", stats |-> vec]
    /\ UNCHANGED <<input, now, cacheVars, apiVars>>

(***************************************************************************)
(* f64 values as far as rank needs them: a non-negative rational, +inf or  *)
(* NaN.  The weights of the model are small integers, so every finite      *)
(* score is an exact rational (sizes and counts are far below 2^53).       *)
(***************************************************************************)
Num(n, d) == [kind |-> "num", num |-> n, den |-> d]
Inf == [kind |-> "inf", num |-> 1, den |-> 1]
NaN == [kind |-> "nan", num |-> 0, den |-> 1]

\* f64::powf on a non-negative integer base: powf(x, 0) = 1 for every x, and
\* powf(0, w) = +inf for w < 0.
powf(x, w) ==
    IF w = 0 THEN Num(1, 1)
    ELSE IF w > 0 THEN Num(x ^ w, 1)
    ELSE IF x = 0 THEN Inf
    ELSE Num(1, x ^ (0 - w))

\* f64 multiplication: inf * 0 = NaN.
fmul(p, q) ==
    IF p.kind = "nan" \/ q.kind = "nan" THEN NaN
    ELSE IF p.kind = "inf" THEN (IF q.kind = "num" /\ q.num = 0 THEN NaN ELSE Inf)
    ELSE IF q.kind = "inf" THEN (IF p.num = 0 THEN NaN ELSE Inf)
    ELSE Num(p.num * q.num, p.den * q.den)

\* f64 addition
fadd(p, q) ==
    IF p.kind = "nan" \/ q.kind = "nan" THEN NaN
    ELSE IF p.kind = "inf" \/ q.kind = "inf" THEN Inf
    ELSE Num(p.num * q.den + q.num * p.den, p.den * q.den)

\* f64 division: 0/0 and inf/inf are NaN, x/0 is +inf for x > 0.
fdiv(p, q) ==
    IF p.kind = "nan" \/ q.kind = "nan" THEN NaN
    ELSE IF p.kind = "inf" THEN (IF q.kind = "inf" THEN NaN ELSE Inf)
    ELSE IF q.kind = "inf" THEN Num(0, 1)
    ELSE IF q.num = 0 THEN (IF p.num = 0 THEN NaN ELSE Inf)
    ELSE Num(p.num * q.den, p.den * q.num)

\* f64::partial_cmp: None when either side is NaN.
partial_cmp(p, q) ==
    IF p.kind = "nan" \/ q.kind = "nan" THEN "None"
    ELSE IF p.kind = "inf" THEN (IF q.kind = "inf" THEN "Equal" ELSE "Greater")
    ELSE IF q.kind = "inf" THEN "Less"
    ELSE IF p.num * q.den < q.num * p.den THEN "Less"
    ELSE IF p.num * q.den > q.num * p.den THEN "Greater"
    ELSE "Equal"

\* langs_card.rs 52-54: LanguageStat::rank
rank(stat, size_weight, count_weight) ==
    fmul(powf(stat.size_bytes, size_weight), powf(stat.repo_count, count_weight))

\* The orders of n elements.
IndexOrders(n) == { f \in [1..n -> 1..n] : \A i \in 1..n : \E j \in 1..n : f[j] = i }

\* langs_card.rs 74-88: LanguageStatsExt::ranked, every Vec it can return.
\* The comparator given to sort_unstable_by is descending by rank, with
\* incomparable ranks taken as equal.  The sort yields some order in which
\* no element compares Greater than a later one; equal elements may come in
\* any order, and the order is unspecified when the comparator is no total
\* order (with a NaN next to two different numbers Equal is not transitive).
ranked(stats, size_weight, count_weight) ==
    LET n == Len(stats)
        ranks == [i \in 1..n |-> rank(stats[i], size_weight, count_weight)]
        compare(a, b) == LET c == partial_cmp(b, a)
                         IN  IF c = "None" THEN "Equal" ELSE c
        total_order == \A i, j, k \in 1..n :
                          (compare(ranks[i], ranks[j]) = "Equal"
                             /\ compare(ranks[j], ranks[k]) = "Equal")
                            => compare(ranks[i], ranks[k]) = "Equal"
        sorted == IF total_order
                  THEN { f \in IndexOrders(n) :
                           \A i, j \in 1..n :
                              i < j => compare(ranks[f[i]], ranks[f[j]]) # "Greater" }
                  ELSE IndexOrders(n)
    IN  { [i \in 1..n |-> stats[f[i]]] : f \in sorted }

\* Vec::truncate
truncate(vec, n) == IF n >= Len(vec) THEN vec ELSE SubSeq(vec, 1, n)

\* langs_card.rs 90-92: the sum of the ranks, from 0.0.
RECURSIVE total_rank(_, _, _)
total_rank(stats, size_weight, count_weight) ==
    IF stats = << >> THEN Num(0, 1)
    ELSE fadd(total_rank(SubSeq(stats, 1, Len(stats) - 1), size_weight, count_weight),
              rank(stats[Len(stats)], size_weight, count_weight))

MaxStats == 3         \* longest stats list given to ranked, top_n and the card
MaxTopN == 4          \* largest n given to top_n

\* The stats lists tried: sizes 0 to 2 with counts 0 and 1, under distinct
\* names.
StatsLists ==
    LET StatNames == <<"Rust", "Go", "C", "Zig", "Nim">>
    IN  UNION { { [i \in 1..n |-> [name |-> StatNames[i], size_bytes |-> sc[i][1],
                                   repo_count |-> sc[i][2]]] :
                    sc \in [1..n -> {<<0, 0>>, <<0, 1>>, <<1, 0>>, <<1, 1>>, <<2, 1>>}] } :
                n \in 0..MaxStats }

\* langs_card.rs 74-88
Ranked ==
    /\ input.fn = "ranked"
    /\ output = NoCall
    /\ \E r \in ranked(input.stats, input.size_weight, input.count_weight) :
          output' = [fn |-> "ranked", ranked |-> r]
    /\ UNCHANGED <<input, now, cacheVars, apiVars>>

\* langs_card.rs 66-70: top_n sorts with ranked and truncates the result.
TopN ==
    /\ input.fn = "top_n"
    /\ output = NoCall
    /\ \E r \in ranked(input.stats, input.size_weight, input.count_weight) :
          output' = [fn |-> "top_n", ranked |-> r, top |-> truncate(r, input.n)]
    /\ UNCHANGED <<input, now, cacheVars, apiVars>>

\* langs_card.rs 32-49 and 66-70: two runs of from_edges followed by top_n on
\* the same edges, the second with the edges in another arrival order.  Each
\* run has its own iteration order of the grouping map (the HashMap is seeded
\* per process); the sort is a function of the Vec it is given, so the two
\* runs sort alike when from_edges returned the same Vec to both.
ReduceTwice ==
    /\ input.fn = "from_edges, top_n"
    /\ output = NoCall
    /\ \E arrival \in IndexOrders(Len(input.edges)) :
       \E first \in IntoValues(GroupEdges(input.edges, << >>)),
          second \in IntoValues(GroupEdges([i \in 1..Len(input.edges) |->
                                              input.edges[arrival[i]]], << >>)) :
       \E r1 \in ranked(first, input.size_weight, input.count_weight),
          r2 \in ranked(second, input.size_weight, input.count_weight) :
          /\ first = second => r1 = r2
          /\ output' = [fn |-> "from_edges, top_n",
                        first |-> [stats |-> first, top |-> truncate(r1, input.n)],
                        second |-> [stats |-> second, top |-> truncate(r2, input.n)]]
    /\ UNCHANGED <<input, now, cacheVars, apiVars>>

(***************************************************************************)
(* CacheKey::user_languages (cache.rs 57-80) on two requests.              *)
(***************************************************************************)
MaxExcluded == 2      \* longest exclusion list

\* cache.rs 163: each of the two requests builds its key.
BuildKeys ==
    /\ input.fn = "user_languages"
    /\ output = NoCall
    /\ output' = [fn |-> "user_languages",
                  first |-> user_languages(input.first.username,
                                           input.first.excluded_repos),
                  second |-> user_languages(input.second.username,
                                            input.second.excluded_repos)]
    /\ UNCHANGED <<input, now, cacheVars, apiVars>>

\* api.rs 455-477 with cache.rs 151-177: fetch_user_languages for one
\* request and then, with the entry still alive, for a second one.  The first
\* misses, fetches and inserts; the second returns the entry of its key if
\* there is one and fetches otherwise.
FetchUserLanguagesTwice ==
    /\ input.fn = "fetch_user_languages, twice"
    /\ output = NoCall
    /\ LET fetched(request) ==
               from_edges(CollectEdges(Flatten(LanguagesData(request.username)),
                                       Range(request.excluded_repos)))
           key(request) == user_languages(request.username, request.excluded_repos)
           inserted == CacheInsert([k \in {key(input.first), key(input.second)} |-> NoEntry],
                                   key(input.first), fetched(input.first))
           hit == CacheGet(inserted, key(input.second), user_languages_ttl)
       IN  output' = [fn |-> "fetch_user_languages, twice",
                      hit |-> hit.present,
                      languages |-> IF hit.present THEN hit.value
                                    ELSE fetched(input.second)]
    /\ UNCHANGED <<input, now, cacheVars, apiVars>>

(***************************************************************************)
(* The card frame and the card renderers (cards/card.rs,                   *)
(* cards/stats_card.rs, cards/langs_card.rs) and the handlers that serve   *)
(* them (web/routes.rs).                                                   *)
(*                                                                         *)
(* A u32 is kept as two 16-bit halves, value = hi * 65536 + lo, so that    *)
(* the whole range 0 .. 2^32 - 1 is there.  Sum and Times return the exact *)
(* result, whose hi may reach 65536 or more: that is where the u32         *)
(* operation of the code overflows.                                        *)
(***************************************************************************)
Half16 == 65536

U32(n) == [hi |-> n \div Half16, lo |-> n % Half16]
U32Max == [hi |-> Half16 - 1, lo |-> Half16 - 1]
TwoTo31 == [hi |-> Half16 \div 2, lo |-> 0]

Sum(a, b) ==
    LET lo == a.lo + b.lo
    IN  [hi |-> a.hi + b.hi + lo \div Half16, lo |-> lo % Half16]

\* a * k for a small natural k
Times(a, k) ==
    LET lo == a.lo * k
    IN  [hi |-> a.hi * k + lo \div Half16, lo |-> lo % Half16]

Overflows(a) == a.hi >= Half16
Wrapped(a) == [hi |-> a.hi % Half16, lo |-> a.lo]

Lt(a, b) == a.hi < b.hi \/ (a.hi = b.hi /\ a.lo < b.lo)

MinCardWidth == 100
MinCardHeight == 60

\* card.rs 120-152 with the 30% test left out.
validate_half_only(width, height, offset_x, offset_y) ==
    LET HalfOf(a) == [hi |-> a.hi \div 2, lo |-> ((a.hi % 2) * Half16 + a.lo) \div 2]
    IN  IF Lt(width, U32(MinCardWidth)) THEN [ok |-> FALSE, err |-> "width"]
        ELSE IF Lt(height, U32(MinCardHeight)) THEN [ok |-> FALSE, err |-> "height"]
        ELSE IF ~Lt(offset_x, HalfOf(width)) \/ ~Lt(offset_y, HalfOf(height))
             THEN [ok |-> FALSE, err |-> "offset not below half"]
        ELSE [ok |-> TRUE, err |-> "-"]

\* card.rs 43-64 and 120-152: Card::new returns the card if Card::validate
\* accepts it.  HalfOf is the u32 division by 2.  ThirtyPercent is
\* (a as f32 * 0.3) as u32, as the integer part of 3a/10: the two agree while
\* a is below 2^21, where the single-precision product still resolves tenths;
\* above that the f32 value can be off by a few units.
validate(width, height, offset_x, offset_y) ==
    LET HalfOf(a) == [hi |-> a.hi \div 2, lo |-> ((a.hi % 2) * Half16 + a.lo) \div 2]
        ThirtyPercent(a) ==
            LET t == Times(a, 3)
            IN  [hi |-> t.hi \div 10, lo |-> ((t.hi % 10) * Half16 + t.lo) \div 10]
    IN  IF Lt(width, U32(MinCardWidth)) THEN [ok |-> FALSE, err |-> "width"]
        ELSE IF Lt(height, U32(MinCardHeight)) THEN [ok |-> FALSE, err |-> "height"]
        ELSE IF Lt(ThirtyPercent(width), offset_x) \/ Lt(ThirtyPercent(height), offset_y)
             THEN [ok |-> FALSE, err |-> "offset above 30%"]
        ELSE IF ~Lt(offset_x, HalfOf(width)) \/ ~Lt(offset_y, HalfOf(height))
             THEN [ok |-> FALSE, err |-> "offset not below half"]
        ELSE [ok |-> TRUE, err |-> "-"]

\* card.rs 5-12: CardSettings, as far as the layout uses it
Settings(offset_x, offset_y, hide_title) ==
    [offset_x |-> offset_x, offset_y |-> offset_y, hide_title |-> hide_title]

\* card.rs 43-64
CardNew ==
    /\ input.fn = "Card::new"
    /\ output = NoCall
    /\ output' = [fn |-> "Card::new",
                  card |-> validate(input.width, input.height,
                                    input.settings.offset_x, input.settings.offset_y)]
    /\ UNCHANGED <<input, now, cacheVars, apiVars>>

(***************************************************************************)
(* cards/stats_card.rs                                                     *)
(***************************************************************************)
TITLE_FONT_SIZE == 18
TITLE_BODY_OFFSET == 1
ICON_SIZE == 15
ICON_OFFSET == 8
LABEL_SIZE == 220
VALUE_SIZE == 31
ROW_Y_STEP == 27

\* u32::to_string of a number below 2^31, as its sequence of characters
RECURSIVE to_string(_)
to_string(n) ==
    LET digit(d) == <<"0", "1", "2", "3", "4", "5", "6", "7", "8", "9">>[d + 1]
    IN  IF n < 10 THEN <<digit(n)>>
        ELSE Append(to_string(n \div 10), digit(n % 10))

\* format_value with the tenths rounded to the nearest instead of floored.
format_value_rounding(value) ==
    IF Lt(value, U32(1000)) THEN to_string(value.lo)
    ELSE IF Lt(value, U32(10000))
    THEN LET thousands == value.lo \div 1000
             tenths == ((value.lo % 1000) + 50) \div 100
         IN  IF tenths = 0
             THEN to_string(thousands) \o <<"k">>
             ELSE to_string(thousands) \o <<".">> \o to_string(tenths) \o <<"k">>
    ELSE to_string((value.hi \div 1000) * Half16
                     + ((value.hi % 1000) * Half16 + value.lo) \div 1000) \o <<"k">>

\* stats_card.rs 199-214: StatsCard::format_value.  The last case is
\* value / 1_000, a quotient below 2^23.
format_value(value) ==
    IF Lt(value, U32(1000)) THEN to_string(value.lo)
    ELSE IF Lt(value, U32(10000))
    THEN LET thousands == value.lo \div 1000
             tenths == (value.lo % 1000) \div 100
         IN  IF tenths = 0
             THEN to_string(thousands) \o <<"k">>
             ELSE to_string(thousands) \o <<".">> \o to_string(tenths) \o <<"k">>
    ELSE to_string((value.hi \div 1000) * Half16
                     + ((value.hi % 1000) * Half16 + value.lo) \div 1000) \o <<"k">>

\* stats_card.rs 199-214
FormatValue ==
    /\ input.fn = "format_value"
    /\ output = NoCall
    /\ output' = [fn |-> "format_value", text |-> format_value(input.value)]
    /\ UNCHANGED <<input, now, cacheVars, apiVars>>

\* The counters of a stats card in the order render goes through them.
Counters == <<"stars_count", "commits_ytd_count", "issues_count",
              "pull_requests_count", "merge_requests_count", "reviews_count",
              "started_discussions_count", "answered_discussions_count">>

CounterSet == { Counters[i] : i \in 1..Len(Counters) }

\* What a renderer gives back: a panic, the text of the Err arm, or the
\* document of Card::render with its rows.
Panic == [kind |-> "panic"]
FailedToRender(what, frame) ==
    [kind |-> "text", text |-> <<"Failed to render ", what>>, frame |-> frame,
     rows |-> << >>, title |-> FALSE]
SvgDocument(frame, title, rows) ==
    [kind |-> "svg", text |-> << >>, frame |-> frame, rows |-> rows, title |-> title]

\* stats_card.rs 51-192: StatsCard::render, every value it can return.  The
\* u32 sums overflow for large offsets: a build with overflow checks panics
\* there, a build without goes on with the wrapped values.  y += ROW_Y_STEP
\* is executed after each visible counter except the last of the eight.
stats_card_render(card) ==
    LET s == card.card_settings
        header_size_y == IF s.hide_title THEN 0 ELSE TITLE_FONT_SIZE + TITLE_BODY_OFFSET
        y0 == IF s.hide_title
              THEN Sum(s.offset_y, U32(ICON_SIZE))
              ELSE Sum(U32(header_size_y + ROW_Y_STEP), s.offset_y)
        visible == SelectSeq(Counters, LAMBDA c : card.counts[c].some)
        y_steps == Cardinality({ i \in 1..(Len(Counters) - 1) : card.counts[Counters[i]].some })
        y_last == Sum(y0, U32(ROW_Y_STEP * y_steps))
        pos_x_value == Sum(s.offset_x, U32(ICON_SIZE + ICON_OFFSET + LABEL_SIZE))
        line_count == IF Len(visible) > 1 THEN Len(visible) ELSE 1
        height == IF s.hide_title
                  THEN Sum(Sum(Times(s.offset_y, 2), U32(ICON_SIZE)),
                           U32((line_count - 1) * ROW_Y_STEP))
                  ELSE Sum(U32(header_size_y + line_count * ROW_Y_STEP),
                           Times(s.offset_y, 2))
        width == Sum(U32(LABEL_SIZE + ICON_SIZE + ICON_OFFSET + VALUE_SIZE),
                     Times(s.offset_x, 2))
        overflow == \/ Overflows(y_last)
                    \/ Overflows(height)
                    \/ Overflows(width)
                    \/ (Len(visible) > 0 /\ Overflows(pos_x_value))
        frame == [width |-> Wrapped(width), height |-> Wrapped(height)]
        rows == [k \in 1..Len(visible) |->
                    [counter |-> visible[k],
                     y |-> Wrapped(Sum(y0, U32(ROW_Y_STEP * (k - 1)))),
                     value |-> format_value(card.counts[visible[k]].v)]]
        returned == IF validate(frame.width, frame.height, s.offset_x, s.offset_y).ok
                    THEN SvgDocument(frame, ~s.hide_title, rows)
                    ELSE FailedToRender("StatsCard", frame)
    IN  IF overflow THEN {Panic, returned} ELSE {returned}

\* Option<u32>::None
NoCount == [some |-> FALSE, v |-> U32(0)]

\* The card of the handler with the counters of shown visible, at their
\* demo values (routes.rs 47-54).
CountsShowing(shown) ==
    [c \in CounterSet |->
        IF c \notin shown THEN NoCount
        ELSE IF c = "stars_count" THEN Some(U32(2400)) ELSE Some(U32(123))]

\* stats_card.rs 51-192
StatsCardRender ==
    /\ input.fn = "StatsCard::render"
    /\ output = NoCall
    /\ \E r \in stats_card_render(input.card) :
          output' = [fn |-> "StatsCard::render", svg |-> r]
    /\ UNCHANGED <<input, now, cacheVars, apiVars>>

(***************************************************************************)
(* web/routes.rs.  A query string value is the sequence of its pieces: a   *)
(* comma, a blank, a digit or a whole word.                                *)
(***************************************************************************)
\* routes.rs 203-211: the check of the handlers, weaker than the one of the
\* GitHub client.
routes_validate_username(username) ==
    IF trim(username) = << >> THEN [ok |-> FALSE, error |-> "Username cannot be empty"]
    ELSE IF \E i \in 1..Len(username) : username[i] = " "
         THEN [ok |-> FALSE, error |-> "Username cannot contain spaces"]
    ELSE [ok |-> TRUE, error |-> "-"]

\* Option<String>::None
NoParam == [some |-> FALSE, v |-> << >>]

\* str::parse::<u32> on the digits left, acc being the value so far: an
\* error when the value leaves the u32 range.
RECURSIVE DigitsU32(_, _)
DigitsU32(d, acc) ==
    IF d = << >> THEN Some(acc)
    ELSE LET next == Sum(Times(acc, 10), U32(DigitVal(Head(d))))
         IN  IF Overflows(next) THEN NoCount ELSE DigitsU32(Tail(d), next)

\* str::parse::<u32>: an optional plus sign, then decimal digits.
ParseU32(b) ==
    IF b = << >> THEN NoCount
    ELSE IF Len(b) = 1 /\ Head(b) \in {"+", "-"} THEN NoCount
    ELSE LET digits == IF Head(b) = "+" THEN Tail(b) ELSE b
         IN  IF \A i \in 1..Len(digits) : digits[i] \in DigitChars
             THEN DigitsU32(digits, U32(0))
             ELSE NoCount

DefaultOffset == 12

\* routes.rs 229-262: CardSettingsQuery::into_settings
into_settings(q) ==
    LET offset(p) == IF p.some /\ ParseU32(p.v).some THEN ParseU32(p.v).v
                     ELSE U32(DefaultOffset)
    IN  Settings(offset(q.offset_x), offset(q.offset_y),
                 q.hide_title.some /\ q.hide_title.v = <<"true">>)

\* str::split(','): the pieces between the commas, empty ones included.
RECURSIVE split(_)
split(str) ==
    IF \A i \in 1..Len(str) : str[i] # "," THEN <<str>>
    ELSE LET k == CHOOSE i \in 1..Len(str) :
                     str[i] = "," /\ \A j \in 1..(i - 1) : str[j] # ","
         IN  <<SubSeq(str, 1, k - 1)>> \o split(SubSeq(str, k + 1, Len(str)))

\* routes.rs 61-77: the loop over the tokens; HideStat::from_str (277-293)
\* knows the eight counter names, and the first token it does not know ends
\* the loop.
RECURSIVE ParseHide(_, _)
ParseHide(tokens, to_hide) ==
    IF tokens = << >> THEN [ok |-> TRUE, to_hide |-> to_hide, token |-> << >>]
    ELSE LET trimmed == trim(Head(tokens))
         IN  IF trimmed = << >> THEN ParseHide(Tail(tokens), to_hide)
             ELSE IF Len(trimmed) = 1 /\ trimmed[1] \in CounterSet
                  THEN ParseHide(Tail(tokens), to_hide \cup {trimmed[1]})
                  ELSE [ok |-> FALSE, to_hide |-> to_hide, token |-> trimmed]

MinVisibleStats == 2

BadRequest(error, detail) ==
    [status |-> 400, content_type |-> "application/json",
     body |-> [kind |-> "json", error |-> error, detail |-> detail]]

\* routes.rs 194-201
svg_response(svg) == [status |-> 200, content_type |-> "image/svg+xml", body |-> svg]

\* What the client gets for each value render can give: when the handler
\* panics the task of the request ends and the connection is closed with no
\* response.
Deliver(svgs) ==
    { IF svg = Panic THEN [status |-> 0, content_type |-> "-", body |-> Panic]
      ELSE svg_response(svg) : svg \in svgs }

\* routes.rs 34-133: every response get_stats_card can give to the query.
get_stats_card(q) ==
    LET check == routes_validate_username(q.username)
        settings == into_settings(q)
        parsed == IF q.hide.some /\ trim(q.hide.v) # << >>
                  THEN ParseHide(split(q.hide.v), {})
                  ELSE [ok |-> TRUE, to_hide |-> {}, token |-> << >>]
        counts == CountsShowing(CounterSet \ parsed.to_hide)
        visible == Cardinality({ c \in CounterSet : counts[c].some })
    IN  IF ~check.ok THEN {BadRequest(check.error, << >>)}
        ELSE IF ~parsed.ok THEN {BadRequest("invalid hide value", parsed.token)}
        ELSE IF visible < MinVisibleStats
             THEN {BadRequest("hide would remove too many stats; at least 2 must remain", << >>)}
        ELSE Deliver(stats_card_render([card_settings |-> settings, counts |-> counts]))

\* routes.rs 34-133
GetStatsCard ==
    /\ input.fn = "GET /stats-card"
    /\ output = NoCall
    /\ \E r \in get_stats_card(input.query) :
          output' = [fn |-> "GET /stats-card", response |-> r]
    /\ UNCHANGED <<input, now, cacheVars, apiVars>>

(***************************************************************************)
(* cards/langs_card.rs: LangsCard::render                                  *)
(***************************************************************************)
MAX_LANGUAGES == 20
LANGS_TITLE_BODY_OFFSET == 25
LANGS_ROW_Y_STEP == 36
VERTICAL_BAR_WIDTH == 220
LANGS_VALUE_SIZE == 46
VERTICAL_VALUE_X_OFFSET == 10
BAR_HEIGHT == 8
HORIZONTAL_COLUMN_WIDTH == 130
HORIZONTAL_COLUMN_GAP == 20
HORIZONTAL_CIRCLE_SIZE == 8
HORIZONTAL_CIRCLE_TEXT_GAP == 10
HORIZONTAL_ROW_Y_STEP == 25
BarSpacing == 10

\* Option::unwrap_or
unwrap_or(option, default) == IF option.some THEN option.v ELSE default

\* langs_card.rs 135-293: LangsCard::render, every value it can return: one
\* for each order top_n can give, and a panic where a u32 operation
\* overflows in a build with overflow checks (y - bar_spacing falls below 0
\* when the title is hidden and offset_y is less than 10).
langs_card_render(card) ==
    LET s == card.card_settings
        size_weight == unwrap_or(card.size_weight, 1)
        count_weight == unwrap_or(card.count_weight, 0)
        header_size_y == IF s.hide_title THEN 0 ELSE TITLE_FONT_SIZE + LANGS_TITLE_BODY_OFFSET
        y0 == Sum(U32(header_size_y), s.offset_y)
        max_langs == IF unwrap_or(card.max_languages, MAX_LANGUAGES) < MAX_LANGUAGES
                     THEN unwrap_or(card.max_languages, MAX_LANGUAGES)
                     ELSE MAX_LANGUAGES
        total == total_rank(card.stats, size_weight, count_weight)
        vertical == card.layout = "Vertical"
        outcome(top_langs) ==
            LET n == Len(top_langs)
                num_rows == (n + 1) \div 2
                value(i) == fmul(fdiv(rank(top_langs[i], size_weight, count_weight), total),
                                 Num(100, 1))
                y1 == Sum(Wrapped(y0), U32(BAR_HEIGHT + BarSpacing))
                row_y(i) == IF vertical
                            THEN Sum(Wrapped(y0), U32(LANGS_ROW_Y_STEP * (i - 1)))
                            ELSE Sum(Wrapped(y1), U32(HORIZONTAL_ROW_Y_STEP * ((i - 1) \div 2)))
                row_x(i) == IF vertical THEN s.offset_x
                            ELSE Sum(s.offset_x,
                                     U32(((i - 1) % 2)
                                          * (HORIZONTAL_COLUMN_WIDTH + HORIZONTAL_COLUMN_GAP)))
                rows == [i \in 1..n |->
                           [counter |-> top_langs[i].name, value |-> value(i),
                            x |-> Wrapped(row_x(i)), y |-> Wrapped(row_y(i))]]
                height == IF vertical
                          THEN Sum(U32(LANGS_ROW_Y_STEP * n + header_size_y),
                                   Times(s.offset_y, 2))
                          ELSE Sum(U32(BAR_HEIGHT + HORIZONTAL_ROW_Y_STEP * num_rows
                                         + header_size_y),
                                   Times(s.offset_y, 2))
                width == IF vertical
                         THEN Sum(U32(VERTICAL_BAR_WIDTH + VERTICAL_VALUE_X_OFFSET
                                        + LANGS_VALUE_SIZE),
                                  Times(s.offset_x, 2))
                         ELSE Sum(U32(HORIZONTAL_COLUMN_WIDTH * 2 + HORIZONTAL_COLUMN_GAP),
                                  Times(s.offset_x, 2))
                overflow ==
                    \/ Overflows(y0)
                    \/ Overflows(height)
                    \/ Overflows(width)
                    \/ IF vertical
                       THEN \/ Overflows(Sum(Wrapped(y0), U32(LANGS_ROW_Y_STEP * n)))
                            \/ n > 0 /\ Overflows(Sum(s.offset_x,
                                           U32(VERTICAL_BAR_WIDTH + VERTICAL_VALUE_X_OFFSET)))
                            \/ n > 0 /\ Overflows(Sum(row_y(n), U32(BAR_HEIGHT * 2)))
                       ELSE \/ Lt(Wrapped(y0), U32(BarSpacing))
                            \/ Overflows(y1)
                            \/ Overflows(Sum(Wrapped(y1), U32(HORIZONTAL_ROW_Y_STEP * num_rows)))
                            \/ n > 0 /\ Overflows(Sum(row_y(n), U32(4)))
                            \/ \E i \in 1..n :
                                  \/ Overflows(row_x(i))
                                  \/ Overflows(Sum(Wrapped(row_x(i)),
                                         U32(HORIZONTAL_CIRCLE_SIZE + HORIZONTAL_CIRCLE_TEXT_GAP)))
                frame == [width |-> Wrapped(width), height |-> Wrapped(height)]
                returned == IF validate(frame.width, frame.height, s.offset_x, s.offset_y).ok
                            THEN SvgDocument(frame, ~s.hide_title, rows)
                            ELSE FailedToRender("LangsCard", frame)
            IN  IF overflow THEN {Panic, returned} ELSE {returned}
    IN  UNION { outcome(truncate(r, max_langs)) :
                  r \in ranked(card.stats, size_weight, count_weight) }

\* langs_card.rs 135-293
LangsCardRender ==
    /\ input.fn = "LangsCard::render"
    /\ output = NoCall
    /\ \E r \in langs_card_render(input.card) :
          output' = [fn |-> "LangsCard::render", svg |-> r]
    /\ UNCHANGED <<input, now, cacheVars, apiVars>>

\* langs_card.rs 347-401: the segments of LangsCard::render_horizontal_bar,
\* each with the x it is drawn at and its width.  The f64 values are exact
\* rationals; f64::round rounds halves away from zero, a negative or NaN
\* width becomes 0 in the cast to u32, and max(1) raises it to 1.  current_x
\* is a whole number, so round(expected_end_x - current_x) is
\* round(expected_end_x) - current_x wherever that is positive.
render_horizontal_bar(stats, size_weight, count_weight, total_width) ==
    LET n == Len(stats)
        RECURSIVE gcd(_, _)
        gcd(a, b) == IF b = 0 THEN a ELSE gcd(b, a % b)
        lowest(p) == IF p.kind = "num" /\ p.num > 0
                     THEN Num(p.num \div gcd(p.num, p.den), p.den \div gcd(p.num, p.den))
                     ELSE IF p.kind = "num" THEN Num(0, 1) ELSE p
        relative_total_rank == total_rank(stats, size_weight, count_weight)
        percentages == [i \in 1..n |->
                          lowest(fmul(fdiv(rank(stats[i], size_weight, count_weight),
                                           relative_total_rank),
                                      Num(100, 1)))]
        sum[i \in 0..n] == IF i = 0 THEN Num(0, 1)
                           ELSE lowest(fadd(sum[i - 1], percentages[i]))
        expected_end_x(i) == lowest(fdiv(fmul(Num(total_width, 1), sum[i]), Num(100, 1)))
        round(p) == (2 * p.num + p.den) \div (2 * p.den)
        segment_width(i, current_x) ==
            LET e == expected_end_x(i)
                rounded == IF e.kind = "nan" THEN 0
                           ELSE IF round(e) > current_x THEN round(e) - current_x
                           ELSE 0
            IN  IF rounded > 1 THEN rounded ELSE 1
        current_x[i \in 0..n] == IF i = 0 THEN 0
                                 ELSE current_x[i - 1] + segment_width(i, current_x[i - 1])
    IN  [i \in 1..n |-> [x |-> current_x[i - 1], width |-> segment_width(i, current_x[i - 1])]]

\* langs_card.rs 347-401
RenderHorizontalBar ==
    /\ input.fn = "render_horizontal_bar"
    /\ output = NoCall
    /\ output' = [fn |-> "render_horizontal_bar",
                  segments |-> render_horizontal_bar(input.stats, input.size_weight,
                                                     input.count_weight, input.total_width)]
    /\ UNCHANGED <<input, now, cacheVars, apiVars>>

\* routes.rs 149-191: every response get_langs_card can give to the query,
\* with the stub statistics of the handler; the layout of the query is
\* absent, "vertical" or "horizontal".
get_langs_card(q) ==
    LET check == routes_validate_username(q.username)
        stats_stub == << [name |-> "Rust", size_bytes |-> 1000, repo_count |-> 10],
                         [name |-> "Go", size_bytes |-> 2000, repo_count |-> 5],
                         [name |-> "JavaScript", size_bytes |-> 1300, repo_count |-> 8] >>
    IN  IF ~check.ok THEN {BadRequest(check.error, << >>)}
        ELSE Deliver(langs_card_render(
                 [card_settings |-> into_settings(q),
                  layout |-> IF q.layout = "vertical" THEN "Vertical" ELSE "Horizontal",
                  stats |-> stats_stub,
                  size_weight |-> q.size_weight, count_weight |-> q.count_weight,
                  max_languages |-> q.max_languages]))

\* routes.rs 149-191
GetLangsCard ==
    /\ input.fn = "GET /langs-card"
    /\ output = NoCall
    /\ \E r \in get_langs_card(input.query) :
          output' = [fn |-> "GET /langs-card", response |-> r]
    /\ UNCHANGED <<input, now, cacheVars, apiVars>>

(***************************************************************************)
(* ErrorCard::break_message_into_lines (error_card.rs 95-121).  A message   *)
(* is given by the byte lengths of its words and of the whitespace before  *)
(* each word and after the last; a line by the words it holds and its      *)
(* byte length.                                                            *)
(***************************************************************************)
MAX_ERROR_MSG_LEN == 45
MaxWords == 3         \* most words of a message

break_message_into_lines(message) ==
    LET n == Len(message.words)
        len == SumSeq(message.words) + SumSeq(message.gaps)
        Line(ws) == [words |-> ws, len |-> SumSeq(ws) + Len(ws) - 1]
        \* the lines pushed and current_line after the first i words
        RECURSIVE after(_)
        after(i) ==
            IF i = 0 THEN [lines |-> << >>, current_line |-> << >>]
            ELSE LET before == after(i - 1)
                     word == message.words[i]
                     current_line == before.current_line
                 IN  IF current_line = << >>
                     THEN [before EXCEPT !.current_line = <<word>>]
                     ELSE IF Line(current_line).len + word < MAX_ERROR_MSG_LEN
                     THEN [before EXCEPT !.current_line = Append(current_line, word)]
                     ELSE [lines |-> Append(before.lines, Line(current_line)),
                           current_line |-> <<word>>]
        finished == after(n)
    IN  IF len <= MAX_ERROR_MSG_LEN THEN << [words |-> message.words, len |-> len] >>
        ELSE IF finished.current_line # << >>
        THEN Append(finished.lines, Line(finished.current_line))
        ELSE finished.lines

\* error_card.rs 95-121
BreakMessageIntoLines ==
    /\ input.fn = "break_message_into_lines"
    /\ output = NoCall
    /\ output' = [fn |-> "break_message_into_lines",
                  lines |-> break_message_into_lines(input.message)]
    /\ UNCHANGED <<input, now, cacheVars, apiVars>>

(***************************************************************************)
(* The calls tried.                                                        *)
(***************************************************************************)
\* Usernames up to MaxShortName characters and around the length limit: 38
\* to 41 letters, and 37 to 39 letters followed or preceded by one more
\* character.  For the fetch through the cache, every way the upstream can
\* answer the three pages of alice with a transport error, a 401, a 429, a
\* body that does not decode, or a page with much or little quota left.
UsernameCalls ==
    LET Repeat(c, n) == [i \in 1..n |-> c]
        names ==
            UNION { [1..n -> NameChars] : n \in 0..MaxShortName }
            \cup { Repeat("a", n) : n \in (MaxUsernameLen - 1)..(MaxUsernameLen + 2) }
            \cup { Repeat("a", n) \o <<c>> : n \in (MaxUsernameLen - 2)..MaxUsernameLen,
                                              c \in NameChars }
            \cup { <<c>> \o Repeat("a", n) : n \in (MaxUsernameLen - 2)..MaxUsernameLen,
                                              c \in {"-", "TAB"} }
        page == Body(TRUE, "page", "absent")
        answers == { SendError,
                     HttpResponse(401, PlentyLeft, Undecodable),
                     HttpResponse(429, FewLeft, Undecodable),
                     HttpResponse(200, PlentyLeft, Undecodable),
                     HttpResponse(200, PlentyLeft, page),
                     HttpResponse(200, FewLeft, page),
                     HttpResponse(500, PlentyLeft, page) }
    IN  { [fn |-> f, username |-> u] :
            f \in {"fetch_user_stats", "fetch_user_languages"}, u \in names }
        \cup { [fn |-> "fetch through the cache", fetch |-> f, username |-> "alice",
                token |-> t, responses |-> r] :
                  f \in {"stats", "languages"}, t \in {"none", "some"},
                  r \in [1..Len(UserData("alice").pages) -> answers] }

\* Edge lists for from_edges, stats lists and pairs of size_weight and
\* count_weight for ranked and top_n, edge lists of two languages for the two
\* runs of from_edges and top_n, stats lists and track widths for the
\* horizontal bar (the track of render is 280 wide), and pairs of requests
\* for the cache key.
LangsCalls ==
    LET edges == { LangEdge(l, b) : l \in {"Rust", "Go", "C"}, b \in {0, 5, 7} }
        repos == UNION { [1..n -> {"r1", "r2"}] : n \in 0..MaxExcluded }
        Weights == {<<1, 0>>, <<0, 1>>, <<1, 1>>, <<-1, 1>>, <<2, 0>>}
        Stat(name, size_bytes, repo_count) ==
            [name |-> name, size_bytes |-> size_bytes, repo_count |-> repo_count]
        BarLists == { <<Stat("Go", 2000, 5), Stat("JavaScript", 1300, 8), Stat("Rust", 1000, 10)>>,
                      <<Stat("Rust", 1000, 1), Stat("Go", 1, 1)>>,
                      <<Stat("Rust", 1000, 1), Stat("Go", 1, 1), Stat("C", 1, 1)>> }
        TrackWidths == {1, 2, 3, 280}
    IN  { [fn |-> "from_edges", edges |-> e] :
            e \in UNION { [1..n -> edges] : n \in 0..MaxEdges } }
        \cup { [fn |-> "ranked", stats |-> st, size_weight |-> w[1],
                count_weight |-> w[2]] : st \in StatsLists, w \in Weights }
        \cup { [fn |-> "top_n", stats |-> st, size_weight |-> w[1],
                count_weight |-> w[2], n |-> n] :
                  st \in StatsLists, w \in Weights, n \in 0..MaxTopN }
        \cup { [fn |-> "from_edges, top_n", edges |-> e, size_weight |-> w[1],
                count_weight |-> w[2], n |-> n] :
                  e \in UNION { [1..k -> { d \in edges : d.size_bytes > 0 /\ d.name # "C" }] :
                                  k \in 1..MaxEdges },
                  w \in {<<1, 0>>, <<0, 1>>, <<1, 1>>}, n \in 1..2 }
        \cup { [fn |-> "render_horizontal_bar", stats |-> st, size_weight |-> w[1],
                count_weight |-> w[2], total_width |-> tw] :
                  st \in StatsLists \cup BarLists, w \in {<<1, 0>>, <<1, 1>>},
                  tw \in TrackWidths }
        \cup { [fn |-> f,
                first |-> [username |-> u1, excluded_repos |-> e1],
                second |-> [username |-> u2, excluded_repos |-> e2]] :
                  f \in {"user_languages", "fetch_user_languages, twice"},
                  u1 \in Usernames, u2 \in Usernames, e1 \in repos, e2 \in repos }

\* Frames around the limits of Card::validate, values around the steps of
\* format_value, error messages of up to MaxWords words of 1, 22, 23 and 46
\* bytes with one or two blanks between them, and stats cards and language
\* cards with small and with very large offsets.
CardCalls ==
    LET widths == {U32(99), U32(100), U32(101), U32(274), U32Max}
        heights == {U32(59), U32(60), U32(61), U32(100), U32Max}
        offsets_x == {U32(0), U32(12), U32(30), U32(31), U32(49), U32(50), U32(82),
                      U32(83), TwoTo31, U32Max}
        offsets_y == {U32(0), U32(12), U32(18), U32(19), U32(30), U32(31)}
        values == { U32(n) : n \in (0..20) \cup (95..105) \cup (990..1110)
                                   \cup (1490..1510) \cup (1890..2010)
                                   \cup (9890..10110) \cup {15234, 99999, 100000} }
                  \cup {TwoTo31, U32Max}
        card_offsets_x == {U32(DefaultOffset), U32(300), U32Max}
        card_offsets_y == {U32(0), U32(DefaultOffset), U32(40), TwoTo31, U32Max}
        layouts == {"Vertical", "Horizontal"}
        seen_stats == { st \in StatsLists : \A i \in 1..Len(st) : st[i].repo_count >= 1 }
        weights == { <<None, None>>, <<Some(1), Some(1)>>, <<Some(0), Some(1)>>,
                     <<Some(-1), None>> }
        max_languages == {None, Some(0), Some(1), Some(2), Some(25)}
        word_lengths == {1, 22, 23, MAX_ERROR_MSG_LEN + 1}
        messages == UNION { { [words |-> ws, gaps |-> <<lead>> \o [i \in 1..(n - 1) |-> g[i]]
                                                        \o <<0>>] :
                                ws \in [1..n -> word_lengths], lead \in {0, 1},
                                g \in [1..(n - 1) -> {1, 2}] } : n \in 1..MaxWords }
    IN  { [fn |-> "Card::new", width |-> w, height |-> h,
           settings |-> Settings(x, y, FALSE)] :
             w \in widths, h \in heights, x \in offsets_x, y \in offsets_y }
        \cup { [fn |-> "format_value", value |-> v] : v \in values }
        \cup { [fn |-> "break_message_into_lines", message |-> m] : m \in messages }
        \cup { [fn |-> "StatsCard::render",
                card |-> [card_settings |-> Settings(x, y, h),
                          counts |-> CountsShowing(shown)]] :
                  x \in card_offsets_x, y \in card_offsets_y, h \in BOOLEAN,
                  shown \in SUBSET CounterSet }
        \cup { [fn |-> "LangsCard::render",
                card |-> [card_settings |-> Settings(U32(DefaultOffset), U32(DefaultOffset), h),
                          layout |-> l, stats |-> st, size_weight |-> w[1],
                          count_weight |-> w[2], max_languages |-> m]] :
                  h \in BOOLEAN, l \in layouts, st \in seen_stats, w \in weights,
                  m \in max_languages }
        \cup { [fn |-> "LangsCard::render",
                card |-> [card_settings |-> Settings(x, y, h), layout |-> l,
                          stats |-> <<[name |-> "Rust", size_bytes |-> 2, repo_count |-> 1],
                                      [name |-> "Go", size_bytes |-> 1, repo_count |-> 1]>>,
                          size_weight |-> None, count_weight |-> None,
                          max_languages |-> None]] :
                  x \in card_offsets_x, y \in card_offsets_y, h \in BOOLEAN, l \in layouts }

\* The queries of the two handlers.  The hide values are every set of
\* counter names, plain, with a name given twice, with blanks and empty
\* tokens around, with a word that is no counter name, and with two names
\* not separated.
RouteCalls ==
    LET RECURSIVE JoinComma(_)
        JoinComma(names) ==
            IF names = << >> THEN << >>
            ELSE IF Len(names) = 1 THEN <<names[1]>>
            ELSE <<names[1], ",">> \o JoinComma(Tail(names))
        Given(v) == [some |-> TRUE, v |-> v]
        hide_values ==
            UNION { LET plain == JoinComma(SelectSeq(Counters, LAMBDA c : c \in hidden))
                    IN  { plain,
                          plain \o <<",">>,
                          <<" ">> \o plain \o <<" ", ",", " ">>,
                          plain \o <<",", "stars_count">>,
                          plain \o <<",", "bogus">>,
                          <<"Stars_count", ",">> \o plain,
                          plain \o <<"issues_count">> }
                    : hidden \in SUBSET CounterSet }
        hide == {NoParam} \cup { Given(h) : h \in hide_values }
        offsets ==
            {NoParam} \cup { Given(d) :
                d \in { <<"0">>, <<"5", "0", "0">>, <<"+", "3", "0">>, <<"-", "1">>,
                        <<"2", "1", "4", "7", "4", "8", "3", "6", "4", "8">>,
                        <<"4", "2", "9", "4", "9", "6", "7", "2", "9", "5">>,
                        <<"4", "2", "9", "4", "9", "6", "7", "2", "9", "6">> } }
        hide_title == {NoParam, Given(<<"true">>), Given(<<"1">>)}
        StatsQuery(username, offset_x, offset_y, title, hidden) ==
            [fn |-> "GET /stats-card",
             query |-> [username |-> username, offset_x |-> offset_x, offset_y |-> offset_y,
                        hide_title |-> title, hide |-> hidden]]
    IN  { StatsQuery(<<"a">>, x, NoParam, t, h) :
            x \in offsets, t \in {NoParam, Given(<<"true">>)}, h \in hide }
        \cup { StatsQuery(<<"a">>, x, y, t, NoParam) :
                 x \in offsets, y \in offsets, t \in hide_title }
        \cup { StatsQuery(u, NoParam, NoParam, NoParam, h) :
                 u \in { << >>, <<" ">>, <<"a", " ", "Z">>, <<"U+00E9">>, <<"-", "a">> },
                 h \in {NoParam, Given(<<"bogus">>)} }
        \cup { [fn |-> "GET /langs-card",
                query |-> [username |-> u, offset_x |-> NoParam, offset_y |-> y,
                           hide_title |-> t, layout |-> l, size_weight |-> w[1],
                           count_weight |-> w[2], max_languages |-> m]] :
                  u \in { <<"a">>, <<"a", " ", "Z">> },
                  y \in { NoParam, Given(<<"0">>), Given(<<"5", "0", "0">>) },
                  t \in { NoParam, Given(<<"true">>) },
                  l \in { "absent", "vertical", "horizontal" },
                  w \in { <<None, None>>, <<Some(1), Some(1)>>, <<Some(0), Some(1)>> },
                  m \in {None, Some(0), Some(1), Some(2), Some(25)} }

InitCalls ==
    /\ now = 0
    /\ token = "some"
    /\ InitCacheVars
    /\ InitApiVars
    /\ input \in UsernameCalls \cup LangsCalls \cup CardCalls \cup RouteCalls
    /\ output = NoCall

NextCalls ==
    \/ FetchUserStats
    \/ FetchUserLanguages
    \/ CachedFetch
    \/ FromEdges
    \/ Ranked
    \/ TopN
    \/ ReduceTwice
    \/ BuildKeys
    \/ FetchUserLanguagesTwice
    \/ CardNew
    \/ FormatValue
    \/ BreakMessageIntoLines
    \/ StatsCardRender
    \/ GetStatsCard
    \/ LangsCardRender
    \/ RenderHorizontalBar
    \/ GetLangsCard

SpecCalls == InitCalls /\ [][NextCalls]_vars

(***************************************************************************)
(* The properties of the calls.                                            *)
(***************************************************************************)
\* The usernames the specification accepts.
AsciiNameChars == {"a", "Z", "7", "-"}

SpecAcceptsUsername(u) ==
    /\ \E i \in 1..Len(u) : u[i] \notin {" ", "TAB"}
    /\ \A i \in 1..Len(u) : u[i] # " "
    /\ Len(u) <= 39
    /\ \A i \in 1..Len(u) : u[i] \in AsciiNameChars
    /\ u[1] # "-"
    /\ u[Len(u)] # "-"

\* C11: a fetch goes on to the cache if and only if the username is non-empty
\* after trimming, has no space, is at most 39 long, consists of characters of
\* [A-Za-z0-9-] and neither starts nor ends with a hyphen; every other username
\* is answered with InvalidUsername before the cache is consulted.
C11_UsernameValidation ==
    (input.fn \in {"fetch_user_stats", "fetch_user_languages"} /\ output # NoCall) =>
        /\ (output.stage = "cache_lookup") <=> SpecAcceptsUsername(input.username)
        /\ output.stage = "returned" => output.result.kind = "InvalidUsername"

RECURSIVE SumSizes(_)
SumSizes(q) == IF q = << >> THEN 0 ELSE Head(q).size_bytes + SumSizes(Tail(q))

RECURSIVE SumCounts(_)
SumCounts(q) == IF q = << >> THEN 0 ELSE Head(q).repo_count + SumCounts(Tail(q))

C13_KeyOfTheSet ==
    (input.fn = "user_languages" /\ output # NoCall) =>
        ((/\ input.first.username = input.second.username
          /\ Range(input.first.excluded_repos) = Range(input.second.excluded_repos))
            => output.first = output.second)

\* Whether rank p is strictly above rank q.
Above(p, q) == partial_cmp(p, q) = "Greater"

IsPermutationOf(out, stats) ==
    /\ Len(out) = Len(stats)
    /\ \E f \in IndexOrders(Len(stats)) : \A i \in 1..Len(stats) : out[i] = stats[f[i]]

FourConditions(width, height, offset_x, offset_y) ==
    /\ ~Lt(width, U32(100))
    /\ ~Lt(height, U32(60))
    /\ Lt(Times(offset_x, 2), width)
    /\ Lt(Times(offset_y, 2), height)

\* C16 as stated: Card::new succeeds if width >= 100, height >= 60,
\* offset_x < width/2 and offset_y < height/2, and fails if one of the four
\* is violated.
C16_FourConditionsDecide ==
    (input.fn = "Card::new" /\ output # NoCall) =>
        (output.card.ok <=>
            FourConditions(input.width, input.height,
                           input.settings.offset_x, input.settings.offset_y))

\* C16 as amended: Card::new succeeds if and only if width >= 100,
\* height >= 60 and neither offset exceeds 30% of its dimension
\* (10 * offset <= 3 * dimension); it fails whenever one of the four
\* conditions of the specification is violated.
C16_FrameValidation ==
    (input.fn = "Card::new" /\ output # NoCall) =>
        LET w == input.width
            h == input.height
            x == input.settings.offset_x
            y == input.settings.offset_y
        IN  /\ output.card.ok <=>
                 (/\ ~Lt(w, U32(100))
                  /\ ~Lt(h, U32(60))
                  /\ ~Lt(Times(w, 3), Times(x, 10))
                  /\ ~Lt(Times(h, 3), Times(y, 10)))
            /\ ~FourConditions(w, h, x, y) => ~output.card.ok

\* An offset between 30% and half of the width has been turned down.
C16_Witness ==
    /\ input.fn = "Card::new"
    /\ output # NoCall
    /\ input.width = U32(100) /\ input.height = U32(60)
    /\ input.settings.offset_x = U32(31) /\ input.settings.offset_y = U32(0)
    /\ ~output.card.ok

\* C18: the height StatsCard::render passes to the frame is
\* 2*offset_y + 15 + (rows-1)*27 with the title hidden and
\* 19 + rows*27 + 2*offset_y otherwise, rows being the number of visible
\* counters; the visible rows come in the fixed order of the counters, each 27
\* below the one before.
C18_StatsCardHeight ==
    (input.fn = "StatsCard::render" /\ output # NoCall) =>
        LET s == input.card.card_settings
            shown == SelectSeq(Counters, LAMBDA c : input.card.counts[c].some)
            n == Len(shown)
            expected == IF s.hide_title
                        THEN Sum(Times(s.offset_y, 2), U32(15 + (n - 1) * 27))
                        ELSE Sum(Times(s.offset_y, 2), U32(19 + n * 27))
        IN  /\ output.svg.kind # "panic"
            /\ output.svg.frame.height = expected
            /\ output.svg.kind = "svg" =>
                 /\ Len(output.svg.rows) = n
                 /\ \A k \in 1..n :
                      /\ output.svg.rows[k].counter = shown[k]
                      /\ output.svg.rows[k].y =
                           Sum(output.svg.rows[1].y, U32((k - 1) * 27))

\* The decimal digits of a number below 1000 and of the thousands.
ExpectedFormat(v) ==
    IF v < 1000 THEN to_string(v)
    ELSE IF v < 10000
    THEN (IF (v % 1000) \div 100 = 0
          THEN to_string(v \div 1000) \o <<"k">>
          ELSE to_string(v \div 1000) \o <<".">> \o to_string((v % 1000) \div 100)
                 \o <<"k">>)
    ELSE to_string(v \div 1000) \o <<"k">>

\* C19: format_value(v) is the decimal of v below 1000, floor(v/1000) with one
\* floored decimal (left out when it is 0) and 'k' from 1000 to 9999, and
\* floor(v/1000) with 'k' from 10000 on; 999 -> "999", 1000 -> "1k",
\* 1500 -> "1.5k", 1999 -> "1.9k", 10000 -> "10k", 15234 -> "15k".
C19_FormatValue ==
    (input.fn = "format_value" /\ output # NoCall) =>
        LET v == input.value
            t == output.text
        IN  /\ v.hi < Half16 \div 2 => t = ExpectedFormat(v.hi * Half16 + v.lo)
            /\ v = TwoTo31 => t = <<"2", "1", "4", "7", "4", "8", "3", "k">>
            /\ v = U32Max => t = <<"4", "2", "9", "4", "9", "6", "7", "k">>
            /\ v = U32(999) => t = <<"9", "9", "9">>
            /\ v = U32(1000) => t = <<"1", "k">>
            /\ v = U32(1500) => t = <<"1", ".", "5", "k">>
            /\ v = U32(1999) => t = <<"1", ".", "9", "k">>
            /\ v = U32(10000) => t = <<"1", "0", "k">>
            /\ v = U32(15234) => t = <<"1", "5", "k">>

\* 1999 has been formatted, with its tenths floored.
C19_Witness ==
    /\ input.fn = "format_value"
    /\ input.value = U32(1999)
    /\ output # NoCall
    /\ output.text = <<"1", ".", "9", "k">>

\* C20: GET /stats-card with a username the handler accepts answers 400 with
\* the JSON error "invalid hide value" when a non-empty token of hide is not
\* one of the eight counter names, 400 with "at least 2 must remain" when
\* fewer than 2 counters stay visible, and otherwise 200 with a card that has
\* a row for exactly the counters hide does not name, a repeated name
\* counting once.
HideTokens(q) ==
    IF q.hide.some
    THEN LET pieces == split(q.hide.v)
         IN  { trim(pieces[i]) : i \in 1..Len(pieces) } \ {<< >>}
    ELSE {}

C20_HideHandling ==
    (input.fn = "GET /stats-card" /\ output # NoCall
       /\ routes_validate_username(input.query.username).ok) =>
        LET r == output.response
            tokens == HideTokens(input.query)
            named == { c \in CounterSet : <<c>> \in tokens }
            unknown == { t \in tokens : ~(\E c \in CounterSet : t = <<c>>) }
            remaining == SelectSeq(Counters, LAMBDA c : c \notin named)
        IN  IF unknown # {}
            THEN r.status = 400 /\ r.body.kind = "json"
                 /\ r.body.error = "invalid hide value"
            ELSE IF Len(remaining) < 2
            THEN r.status = 400 /\ r.body.kind = "json"
                 /\ r.body.error = "hide would remove too many stats; at least 2 must remain"
            ELSE /\ r.status = 200
                 /\ r.body.kind = "svg"
                 /\ Len(r.body.rows) = Len(remaining)
                 /\ \A k \in 1..Len(remaining) : r.body.rows[k].counter = remaining[k]

RECURSIVE SumValues(_)
SumValues(rows) ==
    IF rows = << >> THEN Num(0, 1)
    ELSE fadd(SumValues(SubSeq(rows, 1, Len(rows) - 1)), rows[Len(rows)].value)

\* C15: every percentage LangsCard::render shows is the language's score
\* divided by the total score of the whole stats list, times 100; the shown
\* percentages sum to at most 100, and to exactly 100 when max_languages is
\* at least the length of the list and the total score is positive.
C15_Percentages ==
    (input.fn = "LangsCard::render" /\ output # NoCall /\ output.svg.kind = "svg") =>
        LET card == input.card
            sw == unwrap_or(card.size_weight, 1)
            cw == unwrap_or(card.count_weight, 0)
            total == total_rank(card.stats, sw, cw)
            rows == output.svg.rows
            stat(i) == CHOOSE st \in { card.stats[j] : j \in 1..Len(card.stats) } :
                          st.name = rows[i].counter
        IN  /\ \A i \in 1..Len(rows) :
                 rows[i].value = fmul(fdiv(rank(stat(i), sw, cw), total), Num(100, 1))
            /\ partial_cmp(SumValues(rows), Num(100, 1)) \in {"Less", "Equal"}
            /\ (/\ unwrap_or(card.max_languages, MAX_LANGUAGES) >= Len(card.stats)
                /\ partial_cmp(total, Num(0, 1)) = "Greater")
                  => partial_cmp(SumValues(rows), Num(100, 1)) = "Equal"

\* C17: when Card::new fails inside StatsCard::render or LangsCard::render
\* the value returned is a well-formed SVG document reading "Error: Failed to
\* generate card", and every body served with 200 as image/svg+xml has an
\* <svg> root, whatever offsets, hide_title, hide and max_languages the
\* query gives.
C17_RenderFailureRecovery ==
    /\ (input.fn \in {"StatsCard::render", "LangsCard::render"} /\ output # NoCall
          /\ output.svg.kind # "panic"
          /\ ~validate(output.svg.frame.width, output.svg.frame.height,
                       input.card.card_settings.offset_x,
                       input.card.card_settings.offset_y).ok)
         => /\ output.svg.kind = "svg"
            /\ output.svg.text = <<"Error: Failed to generate card">>
    /\ (input.fn \in {"GET /stats-card", "GET /langs-card"} /\ output # NoCall
          /\ output.response.status = 200
          /\ output.response.content_type = "image/svg+xml")
         => output.response.body.kind = "svg"

\* C21: for a non-empty language list with a positive total score the
\* segments of render_horizontal_bar tile the track: the first starts at 0,
\* each next one starts at the right edge of the one before, every segment is
\* at least 1 wide and the last right edge is the track width; the list of the
\* unit test on a 280 track has the right edges 130, 215 and 280.
C21_BarTiling ==
    (/\ input.fn = "render_horizontal_bar" /\ output # NoCall
     /\ input.stats # << >>
     /\ partial_cmp(total_rank(input.stats, input.size_weight, input.count_weight),
                    Num(0, 1)) = "Greater")
      => LET seg == output.segments
             n == Len(seg)
         IN  /\ n = Len(input.stats)
             /\ seg[1].x = 0
             /\ \A i \in 1..(n - 1) : seg[i + 1].x = seg[i].x + seg[i].width
             /\ \A i \in 1..n : seg[i].width >= 1
             /\ seg[n].x + seg[n].width = input.total_width
             /\ (input.total_width = 280 /\ n = 3 /\ input.stats[1].size_bytes = 2000
                   /\ input.size_weight = 1 /\ input.count_weight = 0)
                  => <<seg[1].x + seg[1].width, seg[2].x + seg[2].width>> = <<130, 215>>

\* C22: a GET /langs-card request without the layout parameter is rendered
\* with the vertical layout (one row per language, every row at offset_x, the
\* frame 276 + 2*offset_x wide); the horizontal layout (two columns under one
\* bar, the frame 280 + 2*offset_x wide) is used only for layout=horizontal.
C22_DefaultLayoutVertical ==
    (/\ input.fn = "GET /langs-card" /\ output # NoCall
     /\ output.response.status = 200
     /\ output.response.body.kind = "svg")
      => LET s == into_settings(input.query)
             doc == output.response.body
             vertical_width == Sum(U32(VERTICAL_BAR_WIDTH + VERTICAL_VALUE_X_OFFSET
                                         + LANGS_VALUE_SIZE),
                                   Times(s.offset_x, 2))
             horizontal_width == Sum(U32(HORIZONTAL_COLUMN_WIDTH * 2 + HORIZONTAL_COLUMN_GAP),
                                     Times(s.offset_x, 2))
         IN  IF input.query.layout = "horizontal"
             THEN doc.frame.width = Wrapped(horizontal_width)
             ELSE /\ doc.frame.width = Wrapped(vertical_width)
                  /\ \A i \in 1..Len(doc.rows) : doc.rows[i].x = s.offset_x

\* C23: every line returned by ErrorCard::break_message_into_lines is at most
\* 45 characters long, for every error message.
C23_LinesAtMost45 ==
    (input.fn = "break_message_into_lines" /\ output # NoCall)
      => \A i \in 1..Len(output.lines) : output.lines[i].len <= MAX_ERROR_MSG_LEN

\* C24: for the same edges, weights and n, from_edges followed by top_n gives
\* the same sequence of languages with the same stats on every run, whatever
\* the order the edges arrive in and the iteration order of the grouping map.
C24_DeterministicReduction ==
    (input.fn = "from_edges, top_n" /\ output # NoCall)
      => output.first.top = output.second.top

\* C25: with threads calling update_rate_limit_from_headers and
\* get_github_rate_limit side by side, every snapshot a read returns is the
\* initial all-absent snapshot or the four values of one single update, never
\* a mix of two responses, and it is the snapshot of the last completed
\* update.
C25_SnapshotIntegrity ==
    history.read =>
        /\ history.got \in {DefaultRateLimit}
              \cup { update_rate_limit_from_headers(DefaultRateLimit, h) : h \in HeaderMaps }
        /\ history.got = history.expected

\* A read has returned the snapshot of the second of two updates while
\* another thread was about to write.
C25_Witness ==
    /\ history.read
    /\ history.got = update_rate_limit_from_headers(DefaultRateLimit, FewLeft)
    /\ \E th \in Threads : thread[th].pc = "limit" /\ thread[th].headers = PlentyLeft

\* A response that reports an error for its page: no response at all, a
\* status outside 2xx, a body that does not decode, or a GraphQL error.
PageError(response) ==
    \/ response.kind = "send_error"
    \/ ~is_success(response.status)
    \/ ~response.body.decodes
    \/ HasError(response.body)

\* C26: a paginated fetch issues one query per page, in the order of the
\* cursors, none twice and none skipped, and no more queries than the user has
\* pages, so it ends when the upstream reports the last page; an error on any
\* page ends the loop at once.
C26_PaginationTerminates ==
    /\ [](\A t \in Tasks :
            /\ task[t].requested = Cursors(Len(task[t].requested))
            /\ Len(task[t].requested)
                  <= Len(IF task[t].fn = "stats" THEN UserData(task[t].login).pages
                         ELSE LanguagesData(task[t].login)))
    /\ [][\A t \in Tasks :
            (task[t].pc = "received" /\ PageError(task[t].response))
               => task'[t].pc \in {"received", "done"}]_vars

\* C27: a value fetch_user_languages(u, E) returns from the languages cache
\* was produced by a fetch for the same username and an exclusion list with
\* the same contents as E: requests whose lists differ never get each other's
\* entry, even when the hashes of the lists coincide, so the value is what
\* the request's own fetch gives.
C27_CachedLanguagesMatch ==
    (input.fn = "fetch_user_languages, twice" /\ output # NoCall /\ output.hit)
      => /\ input.first.username = input.second.username
         /\ Range(input.first.excluded_repos) = Range(input.second.excluded_repos)
         /\ output.languages =
               from_edges(CollectEdges(Flatten(LanguagesData(input.second.username)),
                                       Range(input.second.excluded_repos)))

\* C28: the token, the governor and the transport are gone through for every
\* page of a paginated fetch; when the request of any page fails with
\* MissingToken, RateLimitProtection, RateLimitExceeded or NetworkError, the
\* fetch returns that error and no record of the pages fetched so far, and no
\* cache entry is made for the key.
C28_NoPartialAggregates ==
    (input.fn = "fetch through the cache" /\ output # NoCall)
      => /\ output.checks = output.queries
         /\ output.posts \in {output.queries, output.queries - 1}
         /\ output.posts = output.queries - 1
               => output.page_error.kind \in {"MissingToken", "RateLimitProtection"}
         /\ output.page_error.tag = "err"
               => /\ output.page_error.kind \in {"MissingToken", "RateLimitProtection",
                                                 "RateLimitExceeded", "NetworkError"}
                  /\ output.result = output.page_error
                  /\ ~output.entry.present

\* The governor has turned the query of the third page down after two pages
\* were fetched, and nothing was cached.
C28_Witness ==
    /\ input.fn = "fetch through the cache" /\ output # NoCall
    /\ input.fetch = "stats"
    /\ output.queries = 3 /\ output.posts = 2
    /\ output.result.kind = "RateLimitProtection"
    /\ ~output.entry.present

\* C29: for every offset_x and offset_y the query decoder accepts and every
\* number of rows, no u32 sum or product of StatsCard::render and
\* LangsCard::render overflows: no card makes either renderer panic in a
\* build with overflow checks.
C29_NoOverflowInLayout ==
    /\ (input.fn = "StatsCard::render" /\ output # NoCall)
          => Panic \notin stats_card_render(input.card)
    /\ (input.fn = "LangsCard::render" /\ output # NoCall)
          => Panic \notin langs_card_render(input.card)

\* A request admitted on a snapshot below the threshold whose reset epoch
\* the clock had reached.
AdmittedAfterReset(e) ==
    /\ e.checked
    /\ e.seen.remaining.some /\ e.seen.reset.some
    /\ e.seen.remaining.v < RateLimitThreshold
    /\ e.at >= e.seen.reset.v

\* C30: when the governor denies admission (remaining < 100 and now < reset),
\* it admits again once the clock has reached the stored reset epoch, with no
\* upstream response needed; a denied call leaves the snapshot as it is; and
\* the response to a request admitted after the reset replaces the snapshot
\* with the one read from its headers.
C30_NoPermanentLockOut ==
    /\ (~Admits(rate_limit, now)) ~> Admits(rate_limit, now)
    /\ [][\A t \in Tasks :
            (/\ task[t].pc = "preflight" /\ task'[t] # task[t]
             /\ token = "some" /\ ~Admits(rate_limit, now))
               => rate_limit' = rate_limit]_vars
    /\ [][\A t \in Tasks :
            (HandlesHttp(t) /\ AdmittedAfterReset(exec[t]))
               => rate_limit' = update_rate_limit_from_headers(rate_limit,
                                     task[t].response.headers)]_vars

====
